---- MODULE Spec2Model ----
(***************************************************************************)
(* State-machine model of the scenes of NGameRunner:                       *)
(*   samples/n_game.py   (level 1: NCharacter, NContactListener, NScene)   *)
(*   samples/n_game3.py  (level 3: NCharacter, NContactListener, NScene3)  *)
(*   samples/leaderboard_screen.py  (LeaderboardScreen)                    *)
(*                                                                         *)
(* Units.  Frame lengths and the durations of the program are integers in *)
(* milliseconds (0.2 s = 200).  A time that the program keeps in a Python  *)
(* float is a record [ms, err]: the double it holds, written as ms         *)
(* milliseconds plus err units of 2^-62 / 125 s.  Sums and differences of  *)
(* such times are rounded as IEEE 754 binary64 rounds them (see Round), so *)
(* 0.2 - 0.15 - 0.05 is not zero here either.  The vertical component of a *)
(* contact normal is an integer in tenths (0.5 = 5), positions are pixels, *)
(* velocities are in the unit in which the knockback impulse of the attack *)
(* changes a velocity by its own magnitude.                                *)
(***************************************************************************)
EXTENDS Integers, Sequences, FiniteSets, TLC

VARIABLES
    level,        \* 1: the scene is NScene (n_game), 3: NScene3 (n_game3),
                  \* 0: LeaderboardScreen
    characters,   \* player number -> the NCharacter object and its body
    scene,        \* the fields of the scene object
    game,         \* attributes and scene-change requests of the game object
    contact,      \* the contact of the most recent PreSolve callback
    ps,           \* the most recent direct call of NCharacter.pre_solve
    ft_acc,       \* history: delta_time accumulated since the last down input,
                  \*          capped at 0.2 s; -1 before the first down input
    atk_acc,      \* history: delta_time accumulated since the last attack
                  \*          input, capped at 0.1 s; -1 before the first one
    goal_order,   \* history: players in the order their goal contact was processed
    registrations,\* history: player number -> calls of add_winner for it so far
    last,         \* history: what the most recent step was, and what the
                  \*          character and the scene were like when it began
    banner_acc    \* history: player number -> delta_time of the scene updates
                  \*          since the player became a winner; -1 before that,
                  \*          BannerOver once it has exceeded 3.0 s

vars == <<level, characters, scene, game, contact, ps, ft_acc, atk_acc, goal_order,
          registrations, last, banner_acc>>

----------------------------------------------------------------------------
(* Bounds of the model *)

NumChars == 2         \* "Start" markers of the level (the code uses at most 4)
NumPlatforms == 1     \* "One_way_platform" markers of the level
LevelWidth == 4       \* level.get_size().x
LevelHeight == 4      \* level.get_size().y
MaxParticles == 15    \* blood particles alive when a further bomb touch is offered
NumMoving == 1        \* characters that the physics moves about the level
MaxRegistrations == 2 \* direct add_winner calls offered per player
ShortBudget == 3000   \* level 3: short scene frames are offered this long (ms)
NumBombs == 2         \* bomb-tagged bodies of level 3
MaxMarkers == 5       \* "Start" markers of the levels SpecLevel draws
MaxGoals == 1         \* "Goal" markers of the levels SpecLevel draws
MaxInits == 2         \* init() calls on one scene object
MaxKnocks == 2        \* knockbacks a body has taken when a further hit is offered

(* Program constants *)

FallThroughDuration == 200
AttackDisplayDuration == 100
WinnerDisplayDuration == 3000
TimeLimit == 120000
ClockWindow == 20000
NormalThreshold == 5
OffWorld == -1000
OobMargin == 200
Dnf == -1000
ParticlesPerSpawn == 15
KnockbackImpulse == 10
AttackReach == 8
Width == 16
AttackRadius == 8
MaxPlayers == 4
LifetimeMin == 300
LifetimeMax == 600

----------------------------------------------------------------------------
(* Helpers *)

Max(a, b) == IF a >= b THEN a ELSE b

Min(a, b) == IF a <= b THEN a ELSE b

Range(s) == {s[i] : i \in DOMAIN s}

Vec(x, y) == [x |-> x, y |-> y]

----------------------------------------------------------------------------
(* Python floats (IEEE 754 binary64) that hold times                       *)
(*                                                                         *)
(* One unit is 2^-62 / 125 s, so that 1 ms is 2^59 units and the record    *)
(* [ms, err] stands for ms * 2^59 + err units.  In the binade              *)
(* [2^(k-10), 2^(k-9)) s the doubles are the multiples of 125 * 2^k units. *)

Zero == [ms |-> 0, err |-> 0]

(* 2^59 modulo 125, and the inverse of 2 modulo 125 *)
TwoTo59 == 113

HalfMod == 63

(* The operations are functions, so that an argument has its value before  *)
(* the operation starts.                                                   *)

(* round to nearest, ties to even: ulp is the spacing of the doubles in    *)
(* the binade of the positive value ms * 2^59 + err, r the value modulo    *)
(* ulp, r2 the value modulo 2 * ulp; sign is the sign of the result        *)
Nearest[ms \in Int, err \in Int, ulp \in Int, r \in Int, r2 \in Int, sign \in Int] ==
    [ms  |-> sign * ms,
     err |-> sign * (IF 2 * r < ulp \/ (2 * r = ulp /\ r2 = r)
                     THEN err - r ELSE err - r + ulp)]

(* find the binade of the positive value ms * 2^59 + err and round there:  *)
(* two_k is 2^k and p is 2^(59-k) modulo 125                               *)
Binade[ms \in Int, err \in Int, two_k \in Int, p \in Int, sign \in Int] ==
    IF ms * 128 > 250 * two_k \/ (ms * 128 = 250 * two_k /\ err >= 0)
    THEN Binade[ms, err, 2 * two_k, (p * HalfMod) % 125, sign]
    ELSE Nearest[ms, err, 125 * two_k,
                 (two_k * (((ms % 125) * p) % 125) + err) % (125 * two_k),
                 (2 * two_k * (((ms % 125) * ((p * HalfMod) % 125)) % 125) + err)
                     % (250 * two_k),
                 sign]

(* the double nearest to ms * 2^59 + err units; a value below one          *)
(* millisecond is the difference of two doubles and is a double itself     *)
Round[ms \in Int, err \in Int] ==
    IF ms = 0 THEN [ms |-> 0, err |-> err]
    ELSE IF ms > 0 THEN Binade[ms, err, 1, TwoTo59, 1]
    ELSE Binade[-ms, -err, 1, TwoTo59, -1]

(* the float that the literal or frame length of ms milliseconds is *)
Double(ms) == Round[ms, 0]

Plus(a, b) == Round[a.ms + b.ms, a.err + b.err]

Minus(a, b) == Round[a.ms - b.ms, a.err - b.err]

Less(a, b) == a.ms < b.ms \/ (a.ms = b.ms /\ a.err < b.err)

AtMost(a, b) == ~Less(b, a)

Positive(a) == Less(Zero, a)

Negative(a) == Less(a, Zero)

(* max(0.0, a) *)
FloorAtZero(a) == IF Positive(a) THEN a ELSE Zero

Chars == 1..Min(NumChars, MaxPlayers)

CharBody(c) == <<"character", c>>

PlatformBody(i) == <<"platform", i>>

WallBody == <<"wall", 0>>

NoBody == <<"none", 0>>

GoalBody == <<"goal", 0>>

BombBody(i) == <<"bomb", i>>

(* GameObject.has_tag of the object a body belongs to *)
has_tag(other, tag) == other[1] = tag

(* a loop over self.body.get_contacts() finds a body with the tag *)
Touching(self, tag) == \E other \in self.contacts : has_tag(other, tag)

Platforms == {PlatformBody(i) : i \in 1..NumPlatforms}

(* the bodies of the objects in the scene's list self.platforms *)
ScenePlatforms(s) == {PlatformBody(i) : i \in 1..s.platforms}

Bodies == {CharBody(c) : c \in Chars} \cup Platforms \cup {WallBody}

SpawnPosition(c) == Vec(c, 1)

----------------------------------------------------------------------------
(* NCharacter.__init__ and NCharacter.init: a character and its dynamic body *)

NewCharacter(c) ==
    [ player_number        |-> c,
      body                 |-> CharBody(c),
      fall_through         |-> FALSE,
      fall_through_timer   |-> Zero,
      attack               |-> FALSE,
      attack_display_timer |-> Zero,
      has_won              |-> FALSE,
      is_active            |-> TRUE,
      flip_x               |-> FALSE,
      pos                  |-> SpawnPosition(c),
      vel                  |-> Vec(0, 0),
      enabled              |-> TRUE,
      contacts             |-> {} ]

----------------------------------------------------------------------------
(* NCharacter.pre_solve: True enables the contact, False disables it *)

(* variant: the sign is not reversed when the character is body_b *)
pre_solve_unsigned(self, body_a, body_b, normal_y, platforms) ==
    LET sign  == IF body_a = self.body \/ body_b = self.body THEN 1 ELSE 0
        other == IF body_a = self.body THEN body_b
                 ELSE IF body_b = self.body THEN body_a ELSE NoBody
    IN  IF sign * normal_y < NormalThreshold THEN FALSE
        ELSE IF self.fall_through /\ other \in platforms THEN FALSE
        ELSE TRUE

pre_solve(self, body_a, body_b, normal_y, platforms) ==
    LET sign  == IF body_a = self.body THEN 1
                 ELSE IF body_b = self.body THEN -1 ELSE 0
        other == IF body_a = self.body THEN body_b
                 ELSE IF body_b = self.body THEN body_a ELSE NoBody
    IN  IF sign * normal_y < NormalThreshold THEN FALSE
        ELSE IF self.fall_through /\ other \in platforms THEN FALSE
        ELSE TRUE

(* NContactListener.PreSolve: the contact as the callback leaves it *)

(* variant: the listener asks the first character of the list, not the    *)
(* character of the contact                                               *)
PreSolve_first(ct, chars) ==
    IF \E c \in DOMAIN chars :
           ct.body_a = chars[c].body \/ ct.body_b = chars[c].body
    THEN [ct EXCEPT !.enabled =
            pre_solve(chars[1], ct.body_a, ct.body_b, ct.normal_y, Platforms)]
    ELSE ct

(* variant: the listener enables every contact it is called for *)
PreSolve_all(ct, chars) == [ct EXCEPT !.enabled = TRUE]

PreSolve(ct, chars) ==
    IF \E c \in DOMAIN chars :
           ct.body_a = chars[c].body \/ ct.body_b = chars[c].body
    THEN [ct EXCEPT !.enabled = TRUE]
    ELSE ct

----------------------------------------------------------------------------
(* NScene.add_winner / NScene3.add_winner on the world w *)

add_winner1(w, player_number) ==
    IF player_number \notin Range(w.scene.winners)
    THEN [w EXCEPT !.scene.winners = Append(@, player_number),
                   !.scene.winner_times =
                       [p \in DOMAIN @ \cup {player_number} |->
                           IF p = player_number THEN Zero ELSE @[p]]]
    ELSE w

(* variant: the completion time goes to the results store only *)
add_winner3_untimed(w, player_number) ==
    IF player_number \notin Range(w.scene.winners)
    THEN [w EXCEPT !.scene.winners = Append(@, player_number),
                   !.scene.winner_times =
                       [p \in DOMAIN @ \cup {player_number} |->
                           IF p = player_number THEN Zero ELSE @[p]],
                   !.game.has_times3 = TRUE,
                   !.game.player_times_level3 =
                       LET old == IF w.game.has_times3 THEN @ ELSE <<>>
                       IN  [p \in DOMAIN old \cup {player_number} |->
                               IF p = player_number THEN w.scene.elapsed_time
                               ELSE old[p]]]
    ELSE w

add_winner3(w, player_number) ==
    IF player_number \notin Range(w.scene.winners)
    THEN [w EXCEPT !.scene.winners = Append(@, player_number),
                   !.scene.winner_times =
                       [p \in DOMAIN @ \cup {player_number} |->
                           IF p = player_number THEN Zero ELSE @[p]],
                   !.scene.player_completion_times =
                       [p \in DOMAIN @ \cup {player_number} |->
                           IF p = player_number THEN w.scene.elapsed_time ELSE @[p]],
                   !.game.has_times3 = TRUE,
                   !.game.player_times_level3 =
                       LET old == IF w.game.has_times3 THEN @ ELSE <<>>
                       IN  [p \in DOMAIN old \cup {player_number} |->
                               IF p = player_number THEN w.scene.elapsed_time
                               ELSE old[p]]]
    ELSE w

(* variant: a new winner is put at the front of the list *)
add_winner_front(w, lv, player_number) ==
    LET w1 == IF lv = 1 THEN add_winner1(w, player_number)
              ELSE add_winner3(w, player_number)
    IN  IF player_number \notin Range(w.scene.winners)
        THEN [w1 EXCEPT !.scene.winners = <<player_number>> \o w.scene.winners]
        ELSE w1

(* variant: no check whether the player is already a winner *)
add_winner_unguarded(w, lv, player_number) ==
    LET w0 == [w EXCEPT !.scene.winners = <<>>]
        w1 == IF lv = 1 THEN add_winner1(w0, player_number)
              ELSE add_winner3(w0, player_number)
    IN  [w1 EXCEPT !.scene.winners = Append(w.scene.winners, player_number)]

add_winner(w, lv, player_number) ==
    IF lv = 1 THEN add_winner1(w, player_number) ELSE add_winner3(w, player_number)

(* NScene3.spawn_blood_particles: 15 particles, each with its drawn lifetime *)

spawn_blood_particles(w, lifetimes) ==
    [w EXCEPT !.scene.blood_particles =
        @ \o [i \in 1..ParticlesPerSpawn |-> Double(lifetimes[i])]]

----------------------------------------------------------------------------
(* NCharacter.update, step by step.  w is the world [characters, scene,    *)
(* game]; c is the player number of the character being updated.           *)

Abs(x) == IF x < 0 THEN -x ELSE x

RunThreshold == 1

(* run/idle animation: the facing follows a horizontal input beyond 0.1 *)
Facing(self, move_x) ==
    IF Abs(move_x) > RunThreshold
    THEN [self EXCEPT !.flip_x = move_x < 0]
    ELSE self

(* variant: player 3 is treated like the others *)
Animate_uniform(w, c, move_x, grounded) ==
    LET self   == w.characters[c]
        ground == IF Abs(move_x) > RunThreshold THEN "run" ELSE "idle"
        air    == IF self.vel.y < 0 THEN "jump" ELSE "fall"
    IN  [w EXCEPT !.played = IF grounded THEN ground ELSE air]

(* the animation the update plays last: "run" or "idle" by the horizontal  *)
(* input, and when movement.grounded is false "jump" or "fall" by the sign *)
(* of the vertical velocity, except for player 3, who always gets "jump"   *)
Animate(w, c, move_x, grounded) ==
    LET self   == w.characters[c]
        ground == IF Abs(move_x) > RunThreshold THEN "run" ELSE "idle"
        air    == IF self.player_number # 3
                  THEN IF self.vel.y < 0 THEN "jump" ELSE "fall"
                  ELSE "jump"
    IN  [w EXCEPT !.played = IF grounded THEN ground ELSE air]

(* a down input arms the fall-through timer *)
FallThroughInput(self, down) ==
    IF down
    THEN [self EXCEPT !.fall_through = TRUE,
                      !.fall_through_timer = Double(FallThroughDuration)]
    ELSE self

(* the fall-through timer runs down, floored at zero *)
FallThroughTick(self, delta_time) ==
    IF Positive(self.fall_through_timer)
    THEN LET t == FloorAtZero(Minus(self.fall_through_timer, Double(delta_time)))
         IN  [self EXCEPT !.fall_through_timer = t,
                          !.fall_through = IF t = Zero THEN FALSE ELSE @]
    ELSE self

(* ApplyLinearImpulse on a body returned by circle_overlap: a dynamic body *)
(* that takes part in the simulation changes its velocity                  *)
ApplyKnockback(other, flip_x) ==
    IF other.enabled
    THEN [other EXCEPT !.vel = Vec(@.x + (IF flip_x THEN -KnockbackImpulse
                                          ELSE KnockbackImpulse),
                                   @.y - KnockbackImpulse)]
    ELSE other

(* the arguments of physics.circle_overlap: a circle beside the body, on   *)
(* the side the animation faces                                            *)
AttackQuery(self) ==
    [ x      |-> self.pos.x + (Width \div 2 + AttackReach)
                              * (IF self.flip_x THEN -1 ELSE 1),
      y      |-> self.pos.y,
      radius |-> AttackRadius,
      ignore |-> self.body ]

(* the impulse handed to ApplyLinearImpulse *)
AttackImpulse(self) ==
    Vec(IF self.flip_x THEN -KnockbackImpulse ELSE KnockbackImpulse,
        -KnockbackImpulse)

(* variant: the query and the impulses are repeated while the attack is shown *)
AttackInput_shown(w, c, attack_pressed, hits) ==
    LET self == w.characters[c]
        struck == hits \ {self.body}
        w1 == [w EXCEPT !.physics.queries = Append(@, AttackQuery(self)),
                        !.physics.impulses =
                            [b \in struck |-> <<AttackImpulse(self)>>]]
    IN  IF attack_pressed
        THEN [w1 EXCEPT !.characters =
                [d \in DOMAIN @ |->
                    IF d = c
                    THEN [@[d] EXCEPT !.attack = TRUE,
                                      !.attack_display_timer =
                                          Double(AttackDisplayDuration)]
                    ELSE IF @[d].body \in struck
                    THEN ApplyKnockback(@[d], self.flip_x)
                    ELSE @[d]]]
        ELSE IF self.attack
        THEN [w1 EXCEPT !.characters =
                [d \in DOMAIN @ |->
                    IF d # c /\ @[d].body \in struck
                    THEN ApplyKnockback(@[d], self.flip_x)
                    ELSE @[d]]]
        ELSE w

(* an attack input opens the display window, asks the physics for the      *)
(* bodies in the attack circle (hits is the answer) and hands an impulse   *)
(* to each of them but the character's own body                            *)
AttackInput(w, c, attack_pressed, hits) ==
    LET self == w.characters[c]
        struck == hits \ {self.body}
    IN  IF attack_pressed
        THEN [w EXCEPT !.physics.queries = Append(@, AttackQuery(self)),
                       !.physics.impulses =
                           [b \in struck |-> <<AttackImpulse(self)>>],
                       !.characters =
                [d \in DOMAIN @ |->
                    IF d = c
                    THEN [@[d] EXCEPT !.attack = TRUE,
                                      !.attack_display_timer =
                                          Double(AttackDisplayDuration)]
                    ELSE IF @[d].body \in struck
                    THEN ApplyKnockback(@[d], self.flip_x)
                    ELSE @[d]]]
        ELSE w

(* variant: the flag is cleared only once the timer is found at zero, one  *)
(* update late                                                            *)
AttackTick_late(self, delta_time) ==
    IF Positive(self.attack_display_timer)
    THEN [self EXCEPT !.attack_display_timer =
                          FloorAtZero(Minus(@, Double(delta_time)))]
    ELSE [self EXCEPT !.attack = FALSE]

(* the attack display timer runs down, floored at zero *)
AttackTick(self, delta_time) ==
    IF Positive(self.attack_display_timer)
    THEN LET t == FloorAtZero(Minus(self.attack_display_timer, Double(delta_time)))
         IN  [self EXCEPT !.attack_display_timer = t,
                          !.attack = IF t = Zero THEN FALSE ELSE @]
    ELSE self

(* Deactivate_moving is the variant that does not stop the body.           *)
(* the character leaves the simulation: off-world, at rest, body disabled. *)
(* cleared: the engine drops the contacts of a disabled body at once       *)
(* (otherwise get_contacts still returns them until the next step).        *)
Deactivate_moving(self, cleared) ==
    [self EXCEPT !.has_won = TRUE,
                 !.is_active = FALSE,
                 !.pos = Vec(OffWorld, OffWorld),
                 !.enabled = FALSE,
                 !.contacts = IF cleared THEN {} ELSE @]

(* Deactivate_active is the variant that leaves is_active set. *)
Deactivate_active(self, cleared) ==
    [self EXCEPT !.has_won = TRUE,
                 !.pos = Vec(OffWorld, OffWorld),
                 !.vel = Vec(0, 0),
                 !.enabled = FALSE,
                 !.contacts = IF cleared THEN {} ELSE @]

Deactivate(self, cleared) ==
    [self EXCEPT !.has_won = TRUE,
                 !.is_active = FALSE,
                 !.pos = Vec(OffWorld, OffWorld),
                 !.vel = Vec(0, 0),
                 !.enabled = FALSE,
                 !.contacts = IF cleared THEN {} ELSE @]

(* goal check: the first goal-tagged contact of a character that has not won *)
GoalContact(w, lv, c, cleared) ==
    IF ~w.characters[c].has_won /\ Touching(w.characters[c], "goal")
    THEN LET w1 == add_winner(w, lv, w.characters[c].player_number)
         IN  [w1 EXCEPT !.characters[c] = Deactivate(@, cleared)]
    ELSE w

(* variant: the respawn also clears the win *)
Respawn_reset(self) ==
    [self EXCEPT !.pos = SpawnPosition(self.player_number), !.vel = Vec(0, 0),
                 !.has_won = FALSE]

(* the respawn: back to the spawn position, at rest *)
Respawn(self) ==
    [self EXCEPT !.pos = SpawnPosition(self.player_number), !.vel = Vec(0, 0)]

(* variant: the loop does not stop at the first bomb *)
BombContact_each(w, c, lifetimes) ==
    LET n == Cardinality({other \in w.characters[c].contacts :
                             has_tag(other, "bomb")})
        w1 == spawn_blood_particles(w, lifetimes)
    IN  IF n = 0 THEN w
        ELSE [(IF n = 1 THEN w1 ELSE spawn_blood_particles(w1, lifetimes))
                 EXCEPT !.characters[c] = Respawn(@)]

(* bomb check (level 3): the first bomb-tagged contact, then break *)
BombContact(w, c, lifetimes) ==
    IF Touching(w.characters[c], "bomb")
    THEN LET w1 == spawn_blood_particles(w, lifetimes)
         IN  [w1 EXCEPT !.characters[c] = Respawn(@)]
    ELSE w

(* variant: a body exactly on an edge is not teleported *)
WorldWrap_exclusive(self, position) ==
    IF position.x < 0
    THEN [self EXCEPT !.pos = Vec(LevelWidth, position.y)]
    ELSE IF position.x > LevelWidth
    THEN [self EXCEPT !.pos = Vec(0, position.y)]
    ELSE self

(* world wrap (level 3) on the position read after the bomb check *)
WorldWrap(self, position) ==
    IF position.x <= 0
    THEN [self EXCEPT !.pos = Vec(LevelWidth, position.y)]
    ELSE IF position.x >= LevelWidth
    THEN [self EXCEPT !.pos = Vec(0, position.y)]
    ELSE self

(* variant: the respawn starts at level height + 200 itself *)
OutOfBounds_inclusive(self, y) ==
    IF y >= LevelHeight + OobMargin THEN Respawn(self) ELSE self

(* out of bounds: below the level by more than 200 px *)
OutOfBounds(self, y) ==
    IF y > LevelHeight + OobMargin THEN Respawn(self) ELSE self

(* the part of update that both levels share: input, timers, attack *)
UpdateInput(w, c, delta_time, inp) ==
    LET w0 == Animate([w EXCEPT !.characters[c] = Facing(@, inp.move_x)],
                      c, inp.move_x, inp.grounded)
        w1 == [w0 EXCEPT !.characters[c] =
                  FallThroughTick(FallThroughInput(@, inp.down), delta_time)]
        w2 == AttackInput(w1, c, inp.attack, inp.hits)
    IN  [w2 EXCEPT !.characters[c] = AttackTick(@, delta_time)]

(* the world when update reads the body position for the checks that     *)
(* follow the contact loops: n_game.py line 252, n_game3.py line 293       *)
BeforeBounds(w, lv, c, delta_time, inp) ==
    LET w1 == GoalContact(UpdateInput(w, c, delta_time, inp), lv, c, inp.cleared)
    IN  IF lv = 1 THEN w1 ELSE BombContact(w1, c, inp.lifetimes)

(* n_game.NCharacter.update *)
update1(w, c, delta_time, inp) ==
    LET w1 == BeforeBounds(w, 1, c, delta_time, inp)
    IN  [w1 EXCEPT !.characters[c] = OutOfBounds(@, @.pos.y)]

(* n_game3.NCharacter.update *)
update3(w, c, delta_time, inp) ==
    LET w2 == BeforeBounds(w, 3, c, delta_time, inp)
        position == w2.characters[c].pos
    IN  [w2 EXCEPT !.characters[c] = OutOfBounds(WorldWrap(@, position), position.y)]

update(w, lv, c, delta_time, inp) ==
    IF lv = 1 THEN update1(w, c, delta_time, inp) ELSE update3(w, c, delta_time, inp)

----------------------------------------------------------------------------
(* NScene.update / NScene3.update *)

(* the winner-display timers age; a timer beyond 3.0 s is deleted *)
AgeWinnerTimes(winner_times, delta_time) ==
    LET aged == [p \in DOMAIN winner_times |->
                    Plus(winner_times[p], Double(delta_time))]
        kept == {p \in DOMAIN winner_times :
                    ~Less(Double(WinnerDisplayDuration), aged[p])}
    IN  [p \in kept |-> aged[p]]

(* variant: a particle stays until its lifetime is below zero *)
AgeParticles_kept(blood_particles, delta_time) ==
    SelectSeq([i \in 1..Len(blood_particles) |->
                  Minus(blood_particles[i], Double(delta_time))],
              LAMBDA lifetime : ~Negative(lifetime))

(* BloodParticle.update on every particle; a particle stays while lifetime > 0 *)
AgeParticles(blood_particles, delta_time) ==
    SelectSeq([i \in 1..Len(blood_particles) |->
                  Minus(blood_particles[i], Double(delta_time))],
              LAMBDA lifetime : Positive(lifetime))

(* the clock replaces the music during the last 20 s *)
Soundtrack(sc) ==
    LET remaining_time == Minus(Double(TimeLimit), sc.elapsed_time)
    IN  IF AtMost(remaining_time, Double(ClockWindow)) /\ Positive(remaining_time)
        THEN [sc EXCEPT !.music_playing = FALSE, !.clock_playing = TRUE]
        ELSE [sc EXCEPT !.clock_playing = FALSE]

StopSounds(w) ==
    [w EXCEPT !.scene.clock_playing = FALSE, !.scene.music_playing = FALSE]

(* game.go_to_scene_next(): the request is counted, the change is deferred; *)
(* requests lists the call sites in the order of their calls, stored the   *)
(* level-3 results store as each call found it                             *)
GoToSceneNext(w, site) ==
    [w EXCEPT !.game.go_to_scene_next = @ + 1,
              !.game.requests = Append(@, site),
              !.game.stored = Append(@, [ has   |-> w.game.has_times3,
                                          times |-> w.game.player_times_level3 ])]

(* variant: the players are numbered from 0 *)
TimeoutDnf_zero_based(w) ==
    LET old  == IF w.game.has_times3 THEN w.game.player_times_level3 ELSE <<>>
        dnf  == {p \in 0..(Cardinality(DOMAIN w.characters) - 1) :
                    p \notin DOMAIN w.scene.player_completion_times}
    IN  [w EXCEPT !.game.has_times3 = TRUE,
                  !.game.player_times_level3 =
                      [p \in DOMAIN old \cup dnf |->
                          IF p \in dnf THEN Double(Dnf) ELSE old[p]]]

(* timeout: DNF for every character without a recorded completion time *)
TimeoutDnf(w) ==
    LET old  == IF w.game.has_times3 THEN w.game.player_times_level3 ELSE <<>>
        dnf  == {p \in 1..Cardinality(DOMAIN w.characters) :
                    p \notin DOMAIN w.scene.player_completion_times}
    IN  [w EXCEPT !.game.has_times3 = TRUE,
                  !.game.player_times_level3 =
                      [p \in DOMAIN old \cup dnf |->
                          IF p \in dnf THEN Double(Dnf) ELSE old[p]]]

EnterPressed(w, enter) ==
    IF enter THEN GoToSceneNext(StopSounds(w), "enter") ELSE w

scene_update1(w, delta_time, enter) ==
    LET w1 == [w EXCEPT !.scene.winner_times = AgeWinnerTimes(@, delta_time)]
    IN  IF enter THEN GoToSceneNext(w1, "enter") ELSE w1

(* the condition of the all-finished path, on the aged winner timers *)
AllFinished(w) ==
    LET wt == w.scene.winner_times
        n  == Cardinality(DOMAIN w.characters)
        all_finished == Cardinality(DOMAIN w.scene.player_completion_times) = n
    IN  /\ all_finished
        /\ n > 0
        /\ \/ \A p \in DOMAIN wt : Less(Double(WinnerDisplayDuration), wt[p])
           \/ DOMAIN wt = {}

(* variant: the limit itself is not yet a timeout *)
TimedOut_late(sc) == Less(Double(TimeLimit), sc.elapsed_time)

(* the time limit is reached *)
TimedOut(sc) == AtMost(Double(TimeLimit), sc.elapsed_time)

(* the first part of NScene3.update: the clock and the particles advance,  *)
(* the sound follows the remaining time, the winner-display timers age     *)
scene_ageing3(w, delta_time) ==
    LET w1 == [w EXCEPT !.scene.elapsed_time = Plus(@, Double(delta_time)),
                        !.scene.blood_particles = AgeParticles(@, delta_time)]
        w2 == [w1 EXCEPT !.scene = Soundtrack(@)]
    IN  [w2 EXCEPT !.scene.winner_times = AgeWinnerTimes(@, delta_time)]

(* the second part: the all-finished path returns, the timeout path does   *)
(* not, and the Enter path comes last                                      *)
scene_ending3(w3, enter) ==
    IF AllFinished(w3)
    THEN GoToSceneNext(StopSounds(w3), "finished")
    ELSE LET w4 == IF TimedOut(w3.scene)
                   THEN GoToSceneNext(TimeoutDnf(StopSounds(w3)), "timeout")
                   ELSE w3
         IN  EnterPressed(w4, enter)

(* NScene3.update: the second part works on the result of the first *)
scene_update3(w, delta_time, enter) ==
    CHOOSE out \in {scene_ending3(w3, enter) : w3 \in {scene_ageing3(w, delta_time)}} :
        TRUE

scene_update(w, lv, delta_time, enter) ==
    IF lv = 1 THEN scene_update1(w, delta_time, enter)
    ELSE scene_update3(w, delta_time, enter)

----------------------------------------------------------------------------
(* LeaderboardScreen (leaderboard_screen.py) *)

(* getattr(self.game, 'player_times_levelN', {}) *)
LevelTimes(g, n) ==
    IF n = 1 THEN (IF g.has_times1 THEN g.player_times_level1 ELSE <<>>)
    ELSE IF n = 2 THEN (IF g.has_times2 THEN g.player_times_level2 ELSE <<>>)
    ELSE (IF g.has_times3 THEN g.player_times_level3 ELSE <<>>)

(* times.get(player_num, -1.0) *)
GetTime(times, player_num) ==
    IF player_num \in DOMAIN times THEN times[player_num] ELSE Double(Dnf)

AllPlayers(g) ==
    DOMAIN LevelTimes(g, 1) \cup DOMAIN LevelTimes(g, 2) \cup DOMAIN LevelTimes(g, 3)

(* format_time: "DNF" below zero, else minutes and the seconds to two     *)
(* decimals, kept here as the number of minutes and of hundredths: the     *)
(* text is the minutes, ":", and the hundredths written as SS.cc.          *)
(* time_seconds // 60 and time_seconds % 60 are exact; a float just below  *)
(* a whole minute (under) has 59.99.. seconds.  The format 05.2f rounds    *)
(* the float that seconds is to the nearest hundredth, an exact tie to the *)
(* even one.                                                               *)
format_time(time) ==
    IF Negative(time)
    THEN [dnf |-> TRUE, minutes |-> 0, hundredths |-> 0]
    ELSE LET under == time.ms % 60000 = 0 /\ time.err < 0
             ms == IF under THEN 60000 ELSE time.ms % 60000
             q  == ms \div 10
             r  == ms % 10
         IN  [ dnf        |-> FALSE,
               minutes    |-> IF under THEN time.ms \div 60000 - 1
                              ELSE time.ms \div 60000,
               hundredths |-> IF \/ r > 5
                                 \/ r = 5 /\ time.err > 0
                                 \/ r = 5 /\ time.err = 0 /\ q % 2 = 1
                              THEN q + 1 ELSE q ]

(* variant: a missing time counts as zero seconds *)
ResultRow_zero(g, player_num) ==
    LET time1 == IF player_num \in DOMAIN LevelTimes(g, 1)
                 THEN LevelTimes(g, 1)[player_num] ELSE Zero
        time2 == IF player_num \in DOMAIN LevelTimes(g, 2)
                 THEN LevelTimes(g, 2)[player_num] ELSE Zero
        time3 == IF player_num \in DOMAIN LevelTimes(g, 3)
                 THEN LevelTimes(g, 3)[player_num] ELSE Zero
        dnf   == Negative(time1) \/ Negative(time2) \/ Negative(time3)
        total_time == IF dnf THEN Double(Dnf) ELSE Plus(Plus(time1, time2), time3)
    IN  [ player     |-> player_num,
          total_time |-> total_time,
          status     |-> format_time(total_time),
          level1     |-> format_time(time1),
          level2     |-> format_time(time2),
          level3     |-> format_time(time3) ]

(* the row of one player *)
ResultRow(g, player_num) ==
    LET time1 == GetTime(LevelTimes(g, 1), player_num)
        time2 == GetTime(LevelTimes(g, 2), player_num)
        time3 == GetTime(LevelTimes(g, 3), player_num)
        dnf   == Negative(time1) \/ Negative(time2) \/ Negative(time3)
        total_time == IF dnf THEN Double(Dnf) ELSE Plus(Plus(time1, time2), time3)
    IN  [ player     |-> player_num,
          total_time |-> total_time,
          status     |-> format_time(total_time),
          level1     |-> format_time(time1),
          level2     |-> format_time(time2),
          level3     |-> format_time(time3) ]

(* the sort key (total_time < 0, total_time or inf) compared as tuples:    *)
(* False before True, then the smaller time; all DNF keys are equal        *)
KeyLess(a, b) ==
    \/ ~Negative(a.total_time) /\ Negative(b.total_time)
    \/ /\ ~Negative(a.total_time)
       /\ ~Negative(b.total_time)
       /\ Less(a.total_time, b.total_time)

(* variant: the rows are compared by total_time alone *)
SortInsert_plain(sorted, row) ==
    LET later == {i \in DOMAIN sorted : Less(row.total_time, sorted[i].total_time)}
        at    == IF later = {} THEN Len(sorted) + 1
                 ELSE CHOOSE i \in later : \A j \in later : i <= j
    IN  SubSeq(sorted, 1, at - 1) \o <<row>> \o SubSeq(sorted, at, Len(sorted))

(* list.sort is stable: a row goes behind every row whose key is not       *)
(* greater than its own                                                    *)
SortInsert(sorted, row) ==
    LET later == {i \in DOMAIN sorted : KeyLess(row, sorted[i])}
        at    == IF later = {} THEN Len(sorted) + 1
                 ELSE CHOOSE i \in later : \A j \in later : i <= j
    IN  SubSeq(sorted, 1, at - 1) \o <<row>> \o SubSeq(sorted, at, Len(sorted))

RECURSIVE SortResults(_)
SortResults(results) ==
    IF results = <<>> THEN <<>>
    ELSE SortInsert(SortResults(SubSeq(results, 1, Len(results) - 1)),
                    results[Len(results)])

(* LeaderboardScreen.init; order is the order in which the set all_players *)
(* is iterated                                                             *)
leaderboard_init(w, order) ==
    LET results == [i \in DOMAIN order |-> ResultRow(w.game, order[i])]
    IN  [w EXCEPT !.scene.player_results = SortResults(results),
                  !.scene.music_playing = TRUE,
                  !.scene.ready = TRUE]

(* variant: the map of level 3 is left on the game object *)
leaderboard_update_keep3(w, enter) ==
    IF enter
    THEN [w EXCEPT !.scene.music_playing = FALSE,
                   !.game.has_times1 = FALSE,
                   !.game.player_times_level1 = <<>>,
                   !.game.has_times2 = FALSE,
                   !.game.player_times_level2 = <<>>,
                   !.game.go_to_scene = Append(@, 0)]
    ELSE w

(* LeaderboardScreen.update: Enter clears the store and goes to scene 0 *)
leaderboard_update(w, enter) ==
    IF enter
    THEN [w EXCEPT !.scene.music_playing = FALSE,
                   !.game.has_times1 = FALSE,
                   !.game.player_times_level1 = <<>>,
                   !.game.has_times2 = FALSE,
                   !.game.player_times_level2 = <<>>,
                   !.game.has_times3 = FALSE,
                   !.game.player_times_level3 = <<>>,
                   !.game.go_to_scene = Append(@, 0)]
    ELSE w

----------------------------------------------------------------------------
(* State *)

(* the calls a handler has made to the physics so far: none when it starts *)
NoQueries == [queries |-> <<>>, impulses |-> <<>>]

(* the world a handler starts in; physics and played collect its calls of  *)
(* the physics service and the animation its latest call of animation.play *)
(* has selected                                                            *)
World == [characters |-> characters, scene |-> scene, game |-> game,
          physics |-> NoQueries, played |-> "none"]

NewScene ==
    [ winners                 |-> <<>>,
      winner_times            |-> <<>>,
      elapsed_time            |-> Zero,
      player_completion_times |-> <<>>,
      blood_particles         |-> <<>>,
      clock_playing           |-> FALSE,
      music_playing           |-> TRUE,
      goal                    |-> TRUE,
      markers                 |-> [Start |-> NumChars, Goal |-> 1],
      platforms               |-> NumPlatforms,
      inits                   |-> 1 ]

NewGame ==
    [ has_times1          |-> FALSE,
      player_times_level1 |-> <<>>,
      has_times2          |-> FALSE,
      player_times_level2 |-> <<>>,
      has_times3          |-> FALSE,
      player_times_level3 |-> <<>>,
      go_to_scene_next    |-> 0,
      requests            |-> <<>>,
      stored              |-> <<>>,
      go_to_scene         |-> <<>> ]

(* callbacks, falling and was are history: whether a callback has run, the *)
(* characters whose fall_through flag was set when it ran, and the value  *)
(* of enabled that the contact had when it ran                            *)
NoContact ==
    [ body_a |-> NoBody, body_b |-> NoBody, normal_y |-> 0,
      enabled |-> TRUE, callbacks |-> 0, falling |-> {}, was |-> TRUE ]

NoCall ==
    [ self |-> 0, body_a |-> NoBody, body_b |-> NoBody, normal_y |-> 0,
      fall_through |-> FALSE, result |-> TRUE ]

(* last before any step.  op is "update" after NCharacter.update of        *)
(* character c, "scene" after the update of a level scene, "board" after   *)
(* the update of the leaderboard and "none" after a physics step, a direct *)
(* add_winner call or the leaderboard's init; the calls of PreSolve and    *)
(* pre_solve leave it as it is.  The other fields are the values at the    *)
(* start of that call, but                                                 *)
(*   read: the body and has_won when update reads the position for the     *)
(*         wrap and bounds checks, and whether the bomb loop found a bomb; *)
(*   wrapped: the body after the world-wrap step (level 3);                *)
(*   attack, hits: the attack input of the update and the answer that      *)
(*         circle_overlap had for it;                                      *)
(*   physics: the overlap queries the update made and the impulses it      *)
(*         handed to bodies;                                               *)
(*   grounded: movement.grounded as the update read it;                    *)
(*   played: the animation the update has selected;                        *)
(*   down, delta_time: the down input and the frame time of the update;    *)
(*   held: the delta_time of the unbroken run of updates with a down input *)
(*         that this update ends, capped at twice the fall-through         *)
(*         duration; 0 if this update had no down input;                   *)
(*   teleported: the character, if the world-wrap step of its latest       *)
(*         update moved it and the update ended with it there; a physics   *)
(*         step that leaves its x-position as it is keeps the entry        *)
NoStep ==
    [ op |-> "none", c |-> 0, pos |-> Vec(0, 0), vel |-> Vec(0, 0),
      contacts |-> {}, has_won |-> FALSE, winners |-> <<>>, particles |-> 0,
      read |-> [pos |-> Vec(0, 0), vel |-> Vec(0, 0), has_won |-> FALSE,
                bomb |-> FALSE],
      wrapped |-> [pos |-> Vec(0, 0), vel |-> Vec(0, 0)],
      winner_times |-> <<>>,
      attack |-> FALSE, hits |-> {}, physics |-> NoQueries,
      grounded |-> TRUE, played |-> "none",
      down |-> FALSE, delta_time |-> 0, held |-> 0, teleported |-> {} ]

BannerOver == WinnerDisplayDuration + 1

(* variant: one character per Start marker, however many there are *)
init_characters_all(k) == [c \in 1..k |-> NewCharacter(c)]

(* init(): a character for each of the first four Start markers, numbered  *)
(* from 1 in the order of the markers                                      *)
init_characters(k) == [c \in 1..Min(k, MaxPlayers) |-> NewCharacter(c)]

(* init(): the goal object is made from the first Goal marker, if any *)
init_goal(g) == g > 0

(* NScene.init() on a scene object that may have been used: the objects  *)
(* made from the level's markers are appended to the lists of the scene,   *)
(* each new character with a body of its own                               *)
scene_init1(w) ==
    LET n   == Len(w.characters)
        new == init_characters(w.scene.markers.Start)
    IN  [w EXCEPT !.characters =
                      [c \in 1..(n + Len(new)) |->
                          IF c <= n THEN @[c]
                          ELSE [new[c - n] EXCEPT !.body = CharBody(c)]],
                  !.scene.platforms = @ + NumPlatforms,
                  !.scene.goal = init_goal(w.scene.markers.Goal) \/ @,
                  !.scene.inits = @ + 1]

(* NScene3.init(): the lists, the maps, the clock and the sound flags are  *)
(* reset before the objects are made                                       *)
scene_init3(w) ==
    [w EXCEPT !.characters = init_characters(w.scene.markers.Start),
              !.scene = [NewScene EXCEPT
                            !.music_playing = TRUE,
                            !.goal = init_goal(w.scene.markers.Goal) \/ w.scene.goal,
                            !.markers = w.scene.markers,
                            !.platforms = NumPlatforms,
                            !.inits = w.scene.inits + 1]]

scene_init(w, lv) == IF lv = 1 THEN scene_init1(w) ELSE scene_init3(w)

(* the scene after __init__ and init(): one character per Start marker *)
Init ==
    /\ level \in {1, 3}
    /\ characters = [c \in Chars |-> NewCharacter(c)]
    /\ scene = [NewScene EXCEPT !.music_playing = (level = 3)]
    /\ game = NewGame
    /\ contact = NoContact
    /\ ps = NoCall
    /\ ft_acc = [c \in Chars |-> -1]
    /\ atk_acc = [c \in Chars |-> -1]
    /\ goal_order = <<>>
    /\ registrations = [c \in Chars |-> 0]
    /\ last = NoStep
    /\ banner_acc = [c \in Chars |-> -1]

(* the scene runs until it has requested the next scene *)
Running == game.go_to_scene_next = 0

----------------------------------------------------------------------------
(* Actions *)

(* history of one update: the character as the position read finds it;    *)
(* w1 is the world after the goal loop, w2 the world at the position read  *)
Read(c, w1, w2) ==
    [ pos     |-> w2.characters[c].pos,
      vel     |-> w2.characters[c].vel,
      has_won |-> w2.characters[c].has_won,
      bomb    |-> level = 3 /\ Touching(w1.characters[c], "bomb") ]

(* history of one update: the body after the world-wrap step *)
Wrapped(c, w2) ==
    LET self == w2.characters[c]
        body == IF level = 3 THEN WorldWrap(self, self.pos) ELSE self
    IN  [ pos |-> body.pos, vel |-> body.vel ]

(* one call of NCharacter.update(delta_time) on character c with the input *)
(* and the engine answers inp of this frame; traced: last records what the *)
(* update found and did, otherwise only that c was updated                 *)
UpdateCall(c, delta_time, inp, traced) ==
    /\ LET w  == update(World, level, c, delta_time, inp)
           w1 == GoalContact(UpdateInput(World, c, delta_time, inp),
                             level, c, inp.cleared)
           w2 == IF level = 1 THEN w1 ELSE BombContact(w1, c, inp.lifetimes)
       IN  /\ characters' = w.characters
           /\ scene' = w.scene
           /\ game' = w.game
           /\ last' = IF ~traced
                      THEN [NoStep EXCEPT !.op = "update", !.c = c]
                      ELSE
                       [NoStep EXCEPT !.op = "update",
                                     !.c = c,
                                     !.pos = characters[c].pos,
                                     !.vel = characters[c].vel,
                                     !.contacts = characters[c].contacts,
                                     !.has_won = characters[c].has_won,
                                     !.winners = scene.winners,
                                     !.particles = Len(scene.blood_particles),
                                     !.attack = inp.attack,
                                     !.grounded = inp.grounded,
                                     !.hits = IF inp.attack THEN inp.hits ELSE {},
                                     !.physics = w.physics,
                                     !.played = w.played,
                                     !.down = inp.down,
                                     !.delta_time = delta_time,
                                     !.held =
                                         IF ~inp.down THEN 0
                                         ELSE Min(2 * FallThroughDuration,
                                                  delta_time +
                                                    (IF last.op = "update" /\ last.c = c
                                                     THEN last.held ELSE 0)),
                                     !.read = Read(c, w1, w2),
                                     !.wrapped = Wrapped(c, w2),
                                     !.teleported =
                                         IF /\ Wrapped(c, w2).pos # w2.characters[c].pos
                                            /\ w.characters[c].pos = Wrapped(c, w2).pos
                                         THEN {c} ELSE {}]
    /\ ft_acc' = [ft_acc EXCEPT ![c] =
                     IF inp.down THEN Min(FallThroughDuration, delta_time)
                     ELSE IF @ < 0 THEN @
                     ELSE Min(FallThroughDuration, @ + delta_time)]
    /\ atk_acc' = [atk_acc EXCEPT ![c] =
                     IF inp.attack THEN Min(AttackDisplayDuration, delta_time)
                     ELSE IF @ < 0 THEN @
                     ELSE Min(AttackDisplayDuration, @ + delta_time)]
    /\ goal_order' = IF ~characters[c].has_won /\ Touching(characters[c], "goal")
                     THEN Append(goal_order, characters[c].player_number)
                     ELSE goal_order
    /\ registrations' = IF ~characters[c].has_won /\ Touching(characters[c], "goal")
                        THEN [registrations EXCEPT
                                 ![characters[c].player_number] = @ + 1]
                        ELSE registrations
    /\ banner_acc' = IF /\ ~characters[c].has_won
                        /\ Touching(characters[c], "goal")
                        /\ characters[c].player_number \notin Range(scene.winners)
                     THEN [banner_acc EXCEPT ![characters[c].player_number] = 0]
                     ELSE banner_acc
    /\ UNCHANGED <<level, contact, ps>>

CharacterUpdate(c, delta_time, inp) == UpdateCall(c, delta_time, inp, TRUE)

(* the physics step as character c sees it: a body in the simulation gets  *)
(* a new position, velocity and set of touched tagged bodies; a disabled   *)
(* body stays where it is and touches nothing                              *)
PhysicsStep(c, position, velocity, tags) ==
    /\ Running
    /\ GoalBody \in tags => scene.goal
    /\ characters' = [characters EXCEPT ![c] =
          IF @.enabled
          THEN [@ EXCEPT !.pos = position, !.vel = velocity, !.contacts = tags]
          ELSE [@ EXCEPT !.contacts = {}]]
    /\ last' = [NoStep EXCEPT !.teleported =
                    IF characters'[c].pos.x = characters[c].pos.x
                    THEN last.teleported ELSE last.teleported \ {c}]
    /\ UNCHANGED <<level, scene, game, contact, ps, ft_acc, atk_acc, goal_order,
                   registrations, banner_acc>>

(* the frame loop of the engine's Scene: update is called on the game      *)
(* objects that are active                                                 *)
FrameUpdate(c, delta_time, inp) ==
    /\ characters[c].is_active
    /\ CharacterUpdate(c, delta_time, inp)

(* the physics engine calls the installed listener before solving a        *)
(* touching contact; it hands the contact over enabled                     *)
PreSolveCallback(body_a, body_b, normal_y) ==
    /\ Running
    /\ body_a # body_b
    /\ \E c \in Chars :
          /\ characters[c].enabled
          /\ characters[c].body \in {body_a, body_b}
    /\ contact' = [PreSolve([contact EXCEPT !.body_a = body_a,
                                            !.body_b = body_b,
                                            !.normal_y = normal_y,
                                            !.enabled = TRUE],
                            characters)
                   EXCEPT !.callbacks = 1,
                          !.falling = {c \in Chars : characters[c].fall_through}]
    /\ UNCHANGED <<level, characters, scene, game, ps, ft_acc, atk_acc, goal_order,
                   registrations, last, banner_acc>>

(* the listener's PreSolve called for a contact between any two bodies of  *)
(* the world, with the contact's enabled flag as the caller left it        *)
PreSolveAny(body_a, body_b, normal_y, enabled) ==
    /\ Running
    /\ body_a # body_b
    /\ contact' = [PreSolve([contact EXCEPT !.body_a = body_a,
                                            !.body_b = body_b,
                                            !.normal_y = normal_y,
                                            !.enabled = enabled],
                            characters)
                   EXCEPT !.callbacks = 1,
                          !.falling = {c \in Chars : characters[c].fall_through},
                          !.was = enabled]
    /\ UNCHANGED <<level, characters, scene, game, ps, ft_acc, atk_acc,
                   goal_order, registrations, last, banner_acc>>

(* a direct call of character c's pre_solve with the scene's platforms *)
CallPreSolve(c, body_a, body_b, normal_y) ==
    /\ body_a # body_b
    /\ ps' = [ self         |-> c,
               body_a       |-> body_a,
               body_b       |-> body_b,
               normal_y     |-> normal_y,
               fall_through |-> characters[c].fall_through,
               result       |-> pre_solve(characters[c], body_a, body_b,
                                          normal_y, ScenePlatforms(scene)) ]
    /\ UNCHANGED <<level, characters, scene, game, contact, ft_acc, atk_acc, goal_order,
                   registrations, last, banner_acc>>

(* one call of the scene's update(delta_time) *)
SceneUpdate(delta_time, enter) ==
    /\ Running
    /\ \E w \in {scene_update(World, level, delta_time, enter)} :
           /\ characters' = w.characters
           /\ scene' = w.scene
           /\ game' = w.game
    /\ last' = [NoStep EXCEPT !.op = "scene",
                              !.delta_time = delta_time,
                              !.winner_times = scene.winner_times]
    /\ banner_acc' = [p \in DOMAIN banner_acc |->
                         IF banner_acc[p] < 0 THEN banner_acc[p]
                         ELSE IF banner_acc[p] + delta_time > WinnerDisplayDuration
                         THEN BannerOver
                         ELSE banner_acc[p] + delta_time]
    /\ UNCHANGED <<level, contact, ps, ft_acc, atk_acc, goal_order, registrations>>

(* a direct call of the scene's add_winner(player_number) *)
AddWinnerCall(player_number) ==
    /\ LET w == add_winner(World, level, player_number)
       IN  /\ characters' = w.characters
           /\ scene' = w.scene
           /\ game' = w.game
    /\ registrations' = [registrations EXCEPT ![player_number] = @ + 1]
    /\ last' = NoStep
    /\ banner_acc' = IF player_number \notin Range(scene.winners)
                     THEN [banner_acc EXCEPT ![player_number] = 0]
                     ELSE banner_acc
    /\ UNCHANGED <<level, contact, ps, ft_acc, atk_acc, goal_order>>

(* the scene object becomes the current scene once more: the request that *)
(* ended its last run has been served and init() runs on it again          *)
SceneInit ==
    /\ ~Running
    /\ level \in {1, 3}
    /\ scene.inits < MaxInits
    /\ LET w == scene_init(World, level)
       IN  /\ characters' = w.characters
           /\ scene' = w.scene
           /\ game' = [w.game EXCEPT !.go_to_scene_next = 0,
                                     !.requests = <<>>,
                                     !.stored = <<>>]
           /\ ft_acc' = [c \in DOMAIN w.characters |-> -1]
           /\ atk_acc' = [c \in DOMAIN w.characters |-> -1]
           /\ registrations' =
                  [p \in {w.characters[c].player_number : c \in DOMAIN w.characters}
                      |-> 0]
           /\ banner_acc' =
                  [p \in {w.characters[c].player_number : c \in DOMAIN w.characters}
                      |-> -1]
    /\ goal_order' = <<>>
    /\ last' = [NoStep EXCEPT !.op = "init"]
    /\ UNCHANGED <<level, contact, ps>>

----------------------------------------------------------------------------
(* The inputs the environment offers *)

NormalYs == {-10, 0, 4, 5, 10}

(* frame lengths in ms *)
FrameDeltas == {150}

(* 0.05 s and 0.1 s are the double 0.2 times a power of two, so that the   *)
(* sum of these frame lengths in ms is also their sum as doubles           *)
TimerDeltas == {50, 100, 200}

BannerDeltas == {1500}

(* frames whose sum the program's float addition rounds: 2.4 + 0.2 + 0.2 + *)
(* 0.2 is 3.0000000000000004 there, while the four doubles add up to less  *)
(* than 3.0                                                                *)
ResidueDeltas == {200, 2400}

HalfTimeDeltas == {60000}

(* random.uniform(0.3, 0.6), to the millisecond, for each of the particles *)
(* of one spawn                                                            *)
ParticleDraws == [1..ParticlesPerSpawn -> LifetimeMin..LifetimeMax]

(* the draws that the specifications offer *)
SampleDraws ==
    { lifetimes \in { [i \in 1..ParticlesPerSpawn |-> IF i % 2 = 0 THEN 300 ELSE 600],
                      [i \in 1..ParticlesPerSpawn |-> 450] } :
        lifetimes \in ParticleDraws }

(* the characters that the environment of the focused specifications acts on *)
Moving == {c \in Chars : c <= NumMoving}

(* the tagged bodies of the level that a character can touch *)
Tags == IF level = 1 THEN {GoalBody}
        ELSE {GoalBody} \cup {BombBody(i) : i \in 1..NumBombs}

(* a frame without player input *)
Idle(cleared, lifetimes) ==
    [ move_x |-> 0, down |-> FALSE, attack |-> FALSE, hits |-> {},
      grounded |-> TRUE, cleared |-> cleared, lifetimes |-> lifetimes ]

IdleInputs == {Idle(cleared, lifetimes) :
                  cleared \in BOOLEAN, lifetimes \in SampleDraws}

(* the same where no bomb is touched and the lifetimes drawn do not matter *)
CalmInputs == {Idle(cleared, [i \in 1..ParticlesPerSpawn |-> 300]) :
                  cleared \in BOOLEAN}

(* the character with the lowest player number *)
First == {c \in Chars : \A d \in Chars : c <= d}

(* short scene frames are offered during the first ShortBudget ms *)
SceneDeltaOffered(delta_time) ==
    \/ delta_time \in HalfTimeDeltas
    \/ level = 1
    \/ scene.elapsed_time.ms < ShortBudget

----------------------------------------------------------------------------
(* Spec: the race. Characters reach the goal in any order, the scene ages  *)
(* its banners and ends by completion, timeout or Enter.                   *)

RaceUpdate ==
    \E c \in Chars, delta_time \in FrameDeltas, inp \in CalmInputs :
        UpdateCall(c, delta_time, inp, FALSE)

RacePhysics ==
    \E c \in Chars, tags \in SUBSET {GoalBody} :
        PhysicsStep(c, characters[c].pos, characters[c].vel, tags)

RaceScene ==
    \E delta_time \in BannerDeltas \cup HalfTimeDeltas, enter \in BOOLEAN :
        /\ SceneDeltaOffered(delta_time)
        /\ SceneUpdate(delta_time, enter)

Next == RaceUpdate \/ RacePhysics \/ RaceScene

Spec == Init /\ [][Next]_vars

----------------------------------------------------------------------------
(* SpecPreSolve: pre_solve called for every character, pair of bodies and  *)
(* normal, while down inputs arm and frames expire the fall-through flag   *)
(* of the first NumMoving characters.                                      *)

Keys(down, attack) ==
    [ move_x |-> 0, down |-> down, attack |-> attack, hits |-> {},
      grounded |-> TRUE, cleared |-> FALSE, lifetimes |-> [i \in 1..ParticlesPerSpawn |-> 300] ]

FilterUpdate ==
    \E c \in Moving, delta_time \in FrameDeltas, down \in BOOLEAN :
        UpdateCall(c, delta_time, Keys(down, FALSE), FALSE)

PreSolveCalls ==
    \E c \in Chars, body_a \in Bodies, body_b \in Bodies, normal_y \in NormalYs :
        CallPreSolve(c, body_a, body_b, normal_y)

NextPreSolve == FilterUpdate \/ PreSolveCalls

SpecPreSolve == Init /\ [][NextPreSolve]_vars

(* SpecContact: the physics engine calls the installed listener *)

ContactCallbacks ==
    \E body_a \in Bodies, body_b \in Bodies, normal_y \in NormalYs :
        PreSolveCallback(body_a, body_b, normal_y)

NextContact == FilterUpdate \/ ContactCallbacks

SpecContact == Init /\ [][NextContact]_vars

(* SpecListener: the listener is called for contacts between any two       *)
(* bodies of the world, enabled or not: characters, platforms, the wall,   *)
(* the goal and a bomb                                                     *)

WorldBodies == Bodies \cup {GoalBody, BombBody(1)}

ListenerCallbacks ==
    \E body_a \in WorldBodies, body_b \in WorldBodies, normal_y \in NormalYs,
       enabled \in BOOLEAN :
        PreSolveAny(body_a, body_b, normal_y, enabled)

NextListener == ListenerCallbacks

SpecListener == Init /\ [][NextListener]_vars

(* SpecTimers: frames of different lengths with and without a down input *)

TimerUpdate ==
    \E c \in Chars, down \in BOOLEAN, delta_time \in TimerDeltas :
        CharacterUpdate(c, delta_time, Keys(down, FALSE))

NextTimers == TimerUpdate

SpecTimers == Init /\ [][NextTimers]_vars

(* SpecAttack: the first character turns and attacks; the physics answers  *)
(* each overlap query with any set of the bodies within reach: its own,    *)
(* the next character's and a platform's                                   *)

AttackDeltas == {25, 100}

Turns == {-10, 0, 10}

AttackTargets ==
    {CharBody(c) : c \in {d \in Chars : \E f \in First : d <= f + 1}}
        \cup {PlatformBody(1)}

Strike(move_x, attack, hits) ==
    [ move_x |-> move_x, down |-> FALSE, attack |-> attack, hits |-> hits,
      grounded |-> TRUE, cleared |-> FALSE, lifetimes |-> [i \in 1..ParticlesPerSpawn |-> 300] ]

AttackUpdate ==
    \E c \in First, delta_time \in AttackDeltas, move_x \in Turns,
       attack \in BOOLEAN, hits \in SUBSET AttackTargets :
        /\ ~attack => hits = {}
        /\ \A d \in Chars : characters[d].vel.y > -KnockbackImpulse * MaxKnocks
        /\ CharacterUpdate(c, delta_time, Strike(move_x, attack, hits))

NextAttack == AttackUpdate

SpecAttack == Init /\ [][NextAttack]_vars

(* SpecLevel: levels with 0..MaxMarkers Start markers and 0..MaxGoals Goal *)
(* markers; the physics lifts and drops the highest-numbered character and *)
(* reports contacts with the goal where there is one.                      *)

InitLevel ==
    /\ level \in {1, 3}
    /\ \E k \in 0..MaxMarkers, g \in 0..MaxGoals :
          /\ characters = init_characters(k)
          /\ scene = [NewScene EXCEPT !.music_playing = (level = 3),
                                      !.goal = init_goal(g),
                                      !.markers = [Start |-> k, Goal |-> g]]
    /\ game = NewGame
    /\ contact = NoContact
    /\ ps = NoCall
    /\ ft_acc = [c \in DOMAIN characters |-> -1]
    /\ atk_acc = [c \in DOMAIN characters |-> -1]
    /\ goal_order = <<>>
    /\ registrations = [c \in DOMAIN characters |-> 0]
    /\ last = NoStep
    /\ banner_acc = [c \in DOMAIN characters |-> -1]

(* the character of the last Start marker that init() has used *)
Newest == {c \in DOMAIN characters : \A d \in DOMAIN characters : d <= c}

Fly(move_x, grounded) ==
    [ move_x |-> move_x, down |-> FALSE, attack |-> FALSE, hits |-> {},
      grounded |-> grounded, cleared |-> FALSE,
      lifetimes |-> [i \in 1..ParticlesPerSpawn |-> 300] ]

AirVelocities == {Vec(0, -2), Vec(0, 0), Vec(0, 3)}

LevelUpdate ==
    \E c \in Newest, delta_time \in FrameDeltas, move_x \in {0, 10},
       grounded \in BOOLEAN :
        CharacterUpdate(c, delta_time, Fly(move_x, grounded))

LevelPhysics ==
    \E c \in Newest, velocity \in AirVelocities, tags \in SUBSET {GoalBody} :
        PhysicsStep(c, characters[c].pos, velocity, tags)

LevelScene ==
    \E delta_time \in HalfTimeDeltas, enter \in BOOLEAN :
        SceneUpdate(delta_time, enter)

NextLevel == LevelUpdate \/ LevelPhysics \/ LevelScene

SpecLevel == InitLevel /\ [][NextLevel]_vars

(* SpecRestart: the first player may win, the scene ends by Enter or       *)
(* timeout, and the same scene object is initialised again                 *)

Restarted == {c \in DOMAIN characters : characters[c].player_number \in First}

RestartUpdate ==
    \E c \in Restarted, delta_time \in FrameDeltas, inp \in CalmInputs :
        UpdateCall(c, delta_time, inp, FALSE)

RestartPhysics ==
    \E c \in Restarted, tags \in SUBSET {GoalBody} :
        PhysicsStep(c, characters[c].pos, characters[c].vel, tags)

NextRestart == RestartUpdate \/ RestartPhysics \/ LevelScene \/ SceneInit

SpecRestart == Init /\ [][NextRestart]_vars

(* SpecParticles: level 3: the first character touches bombs during the   *)
(* first ShortBudget ms, and the engine's frame loop keeps calling the     *)
(* scene's update, with short frames at first                              *)

ParticleDeltas == {150}

ParticleUpdate ==
    \E c \in First, delta_time \in FrameDeltas, inp \in IdleInputs :
        /\ level = 3
        /\ Len(scene.blood_particles) <= MaxParticles
        /\ scene.elapsed_time.ms < ShortBudget
        /\ UpdateCall(c, delta_time, inp, FALSE)

ParticlePhysics ==
    \E c \in First, tags \in SUBSET {BombBody(1)} :
        /\ level = 3
        /\ PhysicsStep(c, characters[c].pos, characters[c].vel, tags)

ParticleScene ==
    \E delta_time \in ParticleDeltas \cup HalfTimeDeltas :
        /\ level = 3
        /\ SceneDeltaOffered(delta_time)
        /\ SceneUpdate(delta_time, FALSE)

NextParticles == ParticleUpdate \/ ParticlePhysics \/ ParticleScene

SpecParticles == Init /\ [][NextParticles]_vars /\ WF_vars(ParticleScene)

(* SpecFlags: frames of any length, also of length zero, in which the      *)
(* first character gets down inputs, held or not, and attack inputs        *)

FlagDeltas == {0, 50, 100, 200}

FlagUpdate ==
    \E c \in First, delta_time \in FlagDeltas, down \in BOOLEAN,
       attack \in BOOLEAN :
        CharacterUpdate(c, delta_time, Keys(down, attack))

NextFlags == FlagUpdate

SpecFlags == Init /\ [][NextFlags]_vars

(* SpecApi: the race of the first character, and add_winner called for it  *)
(* from outside, before and after its own goal contact                     *)

ApiUpdate ==
    \E c \in First, delta_time \in FrameDeltas, inp \in CalmInputs :
        CharacterUpdate(c, delta_time, inp)

ApiPhysics ==
    \E c \in First, tags \in SUBSET {GoalBody} :
        PhysicsStep(c, characters[c].pos, characters[c].vel, tags)

ApiCalls ==
    \E p \in First :
        /\ registrations[p] < MaxRegistrations
        /\ AddWinnerCall(p)

NextApi == ApiUpdate \/ ApiPhysics \/ RaceScene \/ ApiCalls

SpecApi == Init /\ [][NextApi]_vars

(* SpecEnds: the first character may or may not reach the goal, and the    *)
(* engine's frame loop keeps calling the scene's update while the scene is *)
(* the current one                                                         *)

NextEnds == ApiUpdate \/ ApiPhysics \/ RaceScene

SpecEnds == Init /\ [][NextEnds]_vars /\ WF_vars(RaceScene)

(* SpecBody: the physics moves the first character to the edges of the     *)
(* level, below it, onto the goal and onto bombs.                          *)

PhysPositions ==
    { Vec(LevelWidth - 1, LevelHeight - 1),
      Vec(0, LevelHeight - 1),
      Vec(LevelWidth, LevelHeight - 1),
      Vec(LevelWidth - 1, LevelHeight + OobMargin),
      Vec(LevelWidth - 1, LevelHeight + OobMargin + 1),
      Vec(0, LevelHeight + OobMargin + 1) }

PhysVelocities == {Vec(3, -2)}

BodyUpdate ==
    \E c \in First, delta_time \in FrameDeltas, inp \in IdleInputs :
        /\ Len(scene.blood_particles) <= MaxParticles
        /\ CharacterUpdate(c, delta_time, inp)

BodyPhysics ==
    \E c \in First, position \in PhysPositions, velocity \in PhysVelocities,
       tags \in SUBSET Tags :
        PhysicsStep(c, position, velocity, tags)

BodyScene ==
    \E delta_time \in HalfTimeDeltas, enter \in BOOLEAN :
        SceneUpdate(delta_time, enter)

NextBody == BodyUpdate \/ BodyPhysics \/ BodyScene

SpecBody == Init /\ [][NextBody]_vars

(* SpecFrames: the engine's frame loop drives the first character, which   *)
(* attacks, drops through platforms, touches bombs and the goal and        *)
(* reaches the edges of the level; the frames go on after it has won.      *)

FrameKeys ==
    { [ move_x |-> 0, down |-> down, attack |-> attack, hits |-> {},
        grounded |-> TRUE, cleared |-> cleared,
        lifetimes |-> [i \in 1..ParticlesPerSpawn |-> 300] ] :
      down \in BOOLEAN, attack \in BOOLEAN, cleared \in BOOLEAN }

FramePositions == {Vec(LevelWidth - 1, LevelHeight - 1), Vec(0, LevelHeight - 1)}

FrameCharacters ==
    \E c \in First, delta_time \in FrameDeltas, inp \in FrameKeys :
        /\ Len(scene.blood_particles) <= MaxParticles
        /\ FrameUpdate(c, delta_time, inp)

FramePhysics ==
    \E c \in First, position \in FramePositions, velocity \in PhysVelocities,
       tags \in SUBSET (Tags \cap {GoalBody, BombBody(1)}) :
        PhysicsStep(c, position, velocity, tags)

NextFrames == FrameCharacters \/ FramePhysics \/ BodyScene

SpecFrames == Init /\ [][NextFrames]_vars

(* SpecBoard: the leaderboard scene is entered with a results store whose  *)
(* level maps are absent, partial or complete, and left with Enter.        *)

(* the value of level while the leaderboard is the current scene *)
Leaderboard == 0

(* LeaderboardScreen.__init__ *)
NewLeaderboard ==
    [ player_results |-> <<>>, music_playing |-> FALSE, ready |-> FALSE ]

(* the times a level map may hold, in ms *)
BoardTimes(n) ==
    IF n = 3 THEN {Double(Dnf), Double(40000), Double(65200)}
             ELSE {Double(Dnf), Double(10000)}

Stores(n) ==
    {[has |-> FALSE, times |-> <<>>]} \cup
    {[has |-> TRUE, times |-> t] :
        t \in UNION {[S -> BoardTimes(n)] : S \in SUBSET Chars}}

(* the orders in which a set can be iterated *)
Orders(S) ==
    {f \in [1..Cardinality(S) -> S] :
        \A i, j \in 1..Cardinality(S) : i # j => f[i] # f[j]}

InitBoard ==
    /\ level = Leaderboard
    /\ characters = <<>>
    /\ scene = NewLeaderboard
    /\ \E s1 \in Stores(1), s2 \in Stores(2), s3 \in Stores(3) :
          game = [NewGame EXCEPT !.has_times1 = s1.has,
                                 !.player_times_level1 = s1.times,
                                 !.has_times2 = s2.has,
                                 !.player_times_level2 = s2.times,
                                 !.has_times3 = s3.has,
                                 !.player_times_level3 = s3.times]
    /\ contact = NoContact
    /\ ps = NoCall
    /\ ft_acc = [c \in Chars |-> -1]
    /\ atk_acc = [c \in Chars |-> -1]
    /\ goal_order = <<>>
    /\ registrations = [c \in Chars |-> 0]
    /\ last = NoStep
    /\ banner_acc = [c \in Chars |-> -1]

(* the engine calls init() when the scene becomes the current one *)
LeaderboardInit(order) ==
    /\ level = Leaderboard
    /\ ~scene.ready
    /\ LET w == leaderboard_init(World, order)
       IN  /\ characters' = w.characters
           /\ scene' = w.scene
           /\ game' = w.game
    /\ last' = NoStep
    /\ UNCHANGED <<level, contact, ps, ft_acc, atk_acc, goal_order, registrations,
                   banner_acc>>

(* one call of LeaderboardScreen.update *)
LeaderboardUpdate(enter) ==
    /\ level = Leaderboard
    /\ scene.ready
    /\ game.go_to_scene = <<>>
    /\ LET w == leaderboard_update(World, enter)
       IN  /\ characters' = w.characters
           /\ scene' = w.scene
           /\ game' = w.game
    /\ last' = [NoStep EXCEPT !.op = "board"]
    /\ UNCHANGED <<level, contact, ps, ft_acc, atk_acc, goal_order, registrations,
                   banner_acc>>

(* SpecFormat: the leaderboard formats level-3 times on both sides of a    *)
(* full minute, alone or summed with the times of levels 1 and 2           *)

FormatTimes ==
    {Dnf, 0, 5, 15, 125, 40000, 65200} \cup
    {m * 60000 - k : m \in 1..2, k \in 1..10}

InitFormat ==
    /\ level = Leaderboard
    /\ characters = <<>>
    /\ scene = NewLeaderboard
    /\ \E t3 \in FormatTimes, t \in {Dnf, 0, 10000} :
          game = [NewGame EXCEPT !.has_times1 = TRUE,
                                 !.player_times_level1 = [p \in First |-> Double(t)],
                                 !.has_times2 = TRUE,
                                 !.player_times_level2 = [p \in First |-> Double(t)],
                                 !.has_times3 = TRUE,
                                 !.player_times_level3 = [p \in First |-> Double(t3)]]
    /\ contact = NoContact
    /\ ps = NoCall
    /\ ft_acc = [c \in Chars |-> -1]
    /\ atk_acc = [c \in Chars |-> -1]
    /\ goal_order = <<>>
    /\ registrations = [c \in Chars |-> 0]
    /\ last = NoStep
    /\ banner_acc = [c \in Chars |-> -1]

BoardInit == \E order \in Orders(AllPlayers(game)) : LeaderboardInit(order)

BoardUpdate == \E enter \in BOOLEAN : LeaderboardUpdate(enter)

NextBoard == BoardInit \/ BoardUpdate

SpecBoard == InitBoard /\ [][NextBoard]_vars

SpecFormat == InitFormat /\ [][NextBoard]_vars

(* SpecFinish: level 3 on a level with Start markers and on a level with  *)
(* none; the characters race, the scene ages its banners and ends.         *)

InitFinish ==
    /\ level = 3
    /\ \E n \in {0, Cardinality(Chars)} :
          /\ characters = [c \in 1..n |-> NewCharacter(c)]
          /\ scene = [NewScene EXCEPT !.markers.Start = n]
    /\ game = NewGame
    /\ contact = NoContact
    /\ ps = NoCall
    /\ ft_acc = [c \in Chars |-> -1]
    /\ atk_acc = [c \in Chars |-> -1]
    /\ goal_order = <<>>
    /\ registrations = [c \in Chars |-> 0]
    /\ last = NoStep
    /\ banner_acc = [c \in Chars |-> -1]

FinishUpdate ==
    \E c \in DOMAIN characters, delta_time \in FrameDeltas, inp \in CalmInputs :
        UpdateCall(c, delta_time, inp, FALSE)

FinishPhysics ==
    \E c \in DOMAIN characters, tags \in SUBSET {GoalBody} :
        PhysicsStep(c, characters[c].pos, characters[c].vel, tags)

(* the short frames are offered while they fit into the first ShortBudget *)
(* ms of the scene                                                        *)
FinishScene ==
    \E delta_time \in ResidueDeltas \cup HalfTimeDeltas, enter \in BOOLEAN :
        /\ \/ delta_time \in HalfTimeDeltas
           \/ scene.elapsed_time.ms + delta_time <= ShortBudget
        /\ SceneUpdate(delta_time, enter)

NextFinish == FinishUpdate \/ FinishPhysics \/ FinishScene

SpecFinish == InitFinish /\ [][NextFinish]_vars

----------------------------------------------------------------------------
(* Claims *)

(* the sign of character c in the recorded call or contact r: +1 as body_a, *)
(* -1 as body_b                                                             *)
SignOf(c, r) == IF r.body_a = CharBody(c) THEN 1 ELSE -1

OtherOf(c, r) == IF r.body_a = CharBody(c) THEN r.body_b ELSE r.body_a

(* C1: for a contact in which the character is body_a (sign +1) or body_b  *)
(* (sign -1), pre_solve returns False exactly when sign * normal.y < 0.5,  *)
(* or fall_through is set and the other body is a one-way platform; it     *)
(* returns True otherwise.                                                 *)
C1_PreSolveRule ==
    (ps.self \in Chars /\ CharBody(ps.self) \in {ps.body_a, ps.body_b})
    => ( ps.result = ~( \/ SignOf(ps.self, ps) * ps.normal_y < NormalThreshold
                        \/ (ps.fall_through
                            /\ OtherOf(ps.self, ps) \in ScenePlatforms(scene)) ) )

(* the character is body_b, lands on a platform from above while falling   *)
(* through, and the contact is disabled                                    *)
C1_Witness ==
    /\ ps.self \in Chars
    /\ ps.body_b = CharBody(ps.self)
    /\ ps.body_a \in Platforms
    /\ ps.normal_y = -10
    /\ ps.fall_through
    /\ ps.result = FALSE

(* C2: every PreSolve callback for a contact between a character whose     *)
(* fall_through flag is set and a one-way platform leaves the contact      *)
(* disabled, whatever the normal.                                          *)
C2_FallThroughDisables ==
    \A c \in Chars :
        ( /\ contact.callbacks > 0
          /\ CharBody(c) \in {contact.body_a, contact.body_b}
          /\ OtherOf(c, contact) \in Platforms
          /\ c \in contact.falling )
        => ~contact.enabled

(* C3: every PreSolve callback for a contact of a character with           *)
(* sign * normal.y >= 0.5 whose fall_through flag is not set leaves the    *)
(* contact enabled.                                                        *)
C3_LandingSolid ==
    \A c \in Chars :
        ( /\ contact.callbacks > 0
          /\ CharBody(c) \in {contact.body_a, contact.body_b}
          /\ SignOf(c, contact) * contact.normal_y >= NormalThreshold
          /\ c \notin contact.falling )
        => contact.enabled

(* the last character of the scene, as body_b, has landed on a platform    *)
(* while not falling through                                               *)
C3_Witness ==
    /\ contact.callbacks > 0
    /\ contact.body_b = CharBody(Cardinality(Chars))
    /\ contact.body_a \in Platforms
    /\ contact.normal_y = -10
    /\ contact.falling = {}
    /\ contact.enabled

(* C4: every PreSolve callback for a contact of a character with           *)
(* sign * normal.y < 0.5 leaves the contact disabled.                      *)
C4_DirectionRuleEachStep ==
    \A c \in Chars :
        ( /\ contact.callbacks > 0
          /\ CharBody(c) \in {contact.body_a, contact.body_b}
          /\ SignOf(c, contact) * contact.normal_y < NormalThreshold )
        => ~contact.enabled

(* C5: counted from the update that receives the down input, fall_through  *)
(* is set while less than 0.2 s of delta_time have accumulated and cleared *)
(* from the first update at which 0.2 s are reached, not earlier and not   *)
(* later; before the first down input the timer is zero.                   *)
C5_FallThroughWindow ==
    \A c \in Chars :
        /\ characters[c].fall_through
              = (ft_acc[c] >= 0 /\ ft_acc[c] < FallThroughDuration)
        /\ ft_acc[c] < 0 => characters[c].fall_through_timer = Zero

(* C6: has_won starts false and never goes from true back to false: once  *)
(* it is true it is true after every later step, and a character whose    *)
(* goal contact has been processed has has_won = true from then on.       *)
C6_HasWonMonotonic ==
    /\ \A c \in Chars : ~characters[c].has_won
    /\ [][\A c \in Chars : characters[c].has_won => characters'[c].has_won]_vars
    /\ [](\A c \in Chars : characters[c].player_number \in Range(goal_order)
                               => characters[c].has_won)

(* a character that has won was respawned by a bomb it still touched *)
C6_Witness ==
    \E c \in Chars :
        /\ characters[c].has_won
        /\ characters[c].pos = SpawnPosition(c)

Count(p, seq) == Cardinality({i \in DOMAIN seq : seq[i] = p})

(* C7: a registered player is in winners exactly once; a further           *)
(* registration of a player leaves winners, the winner-display timers, the *)
(* recorded completion times and the stored times unchanged.               *)
C7_RegistrationIdempotent ==
    [][\A p \in Chars :
          /\ registrations'[p] >= 1 => Count(p, scene'.winners) = 1
          /\ (registrations[p] >= 1 /\ registrations'[p] > registrations[p])
             => /\ scene'.winners = scene.winners
                /\ scene'.winner_times = scene.winner_times
                /\ scene'.player_completion_times = scene.player_completion_times
                /\ game' = game]_vars

(* a player whose banner has expired was registered a second time *)
C7_Witness ==
    \E p \in Chars :
        /\ registrations[p] = 2
        /\ Count(p, scene.winners) = 1
        /\ p \notin DOMAIN scene.winner_times

(* the step is the update of c that processes its first goal contact *)
GoalProcessed(c) == goal_order' = Append(goal_order, characters[c].player_number)

(* C8: level 1: at the end of the update that processes the goal contact   *)
(* of a character that had not won, the character has won and is inactive, *)
(* its player number is in winners, its body is at (-1000, -1000), at rest *)
(* and disabled.                                                           *)
C8_Level1Won ==
    [][\A c \in Chars :
          (level = 1 /\ GoalProcessed(c))
          => /\ characters'[c].has_won
             /\ ~characters'[c].is_active
             /\ c \in Range(scene'.winners)
             /\ characters'[c].pos = Vec(OffWorld, OffWorld)
             /\ characters'[c].vel = Vec(0, 0)
             /\ ~characters'[c].enabled]_vars

(* level 1: a character has won and its body is off-world, at rest *)
C8_Witness ==
    \E c \in Chars :
        /\ level = 1
        /\ goal_order = <<c>>
        /\ characters[c].has_won
        /\ characters[c].pos = Vec(OffWorld, OffWorld)
        /\ characters[c].vel = Vec(0, 0)

(* C9: level 3: at the end of the update that processes the goal contact   *)
(* of a character that had not won, its body is at (-1000, -1000), at rest *)
(* and disabled.                                                           *)
C9_Level3StaysOffWorld ==
    [][\A c \in Chars :
          (level = 3 /\ GoalProcessed(c))
          => /\ characters'[c].pos = Vec(OffWorld, OffWorld)
             /\ characters'[c].vel = Vec(0, 0)
             /\ ~characters'[c].enabled]_vars

IsPrefix(s, t) == Len(s) <= Len(t) /\ \A i \in 1..Len(s) : s[i] = t[i]

(* C10: winners is append-only, and it lists the players in the order in   *)
(* which their first goal contacts were processed.                        *)
C10_WinnersOrder ==
    /\ [](scene.winners = goal_order)
    /\ [][IsPrefix(scene.winners, scene'.winners)]_vars

(* every character has finished, the last of the scene first *)
C10_Witness ==
    /\ Len(scene.winners) = Cardinality(Chars)
    /\ Len(scene.winners) >= 2
    /\ scene.winners[1] = Cardinality(Chars)

(* the most recent step was an update of character c *)
Updated(c) == last.op = "update" /\ last.c = c

Below(y) == y > LevelHeight + OobMargin

(* C11: an update of a character whose body y-position, as the update      *)
(* reads it, is greater than level height + 200 ends with the body at the  *)
(* spawn position, at rest, and has_won as it was, whether has_won is true *)
(* or false and also when a world-wrap applies; at exactly level height +  *)
(* 200 the body is not respawned.                                          *)
C11_OutOfBoundsRespawn ==
    \A c \in Chars :
        /\ (Updated(c) /\ Below(last.read.pos.y))
           => /\ characters[c].pos = SpawnPosition(c)
              /\ characters[c].vel = Vec(0, 0)
              /\ characters[c].has_won = last.read.has_won
        /\ (Updated(c) /\ last.read.pos.y = LevelHeight + OobMargin)
           => /\ characters[c].pos.y = last.read.pos.y
              /\ characters[c].vel = last.read.vel

(* level 3: a moving body at the left edge and below the level was wrapped *)
(* and respawned in one update                                             *)
C11_Witness ==
    \E c \in Chars :
        /\ level = 3
        /\ Updated(c)
        /\ last.pos = last.read.pos
        /\ Below(last.read.pos.y)
        /\ last.read.pos.x <= 0
        /\ last.vel # Vec(0, 0)
        /\ last.wrapped.pos.x = LevelWidth
        /\ characters[c].pos = SpawnPosition(c)
        /\ characters[c].vel = Vec(0, 0)

(* C12: level 3: the world-wrap step of an update moves a body read at     *)
(* x <= 0 to (level width, y) and a body read at x >= level width to       *)
(* (0, y), with y and the velocity as before the teleport; a body with     *)
(* 0 < x < level width is not teleported; and unless the body is below the *)
(* level by more than 200 px (C11) the update ends with the body there.    *)
C12_WorldWrap ==
    \A c \in Chars :
        (level = 3 /\ Updated(c))
        => /\ last.read.pos.x <= 0
              => /\ last.wrapped.pos = Vec(LevelWidth, last.read.pos.y)
                 /\ last.wrapped.vel = last.read.vel
           /\ last.read.pos.x >= LevelWidth
              => /\ last.wrapped.pos = Vec(0, last.read.pos.y)
                 /\ last.wrapped.vel = last.read.vel
           /\ (last.read.pos.x > 0 /\ last.read.pos.x < LevelWidth)
              => /\ last.wrapped.pos = last.read.pos
                 /\ last.wrapped.vel = last.read.vel
           /\ ~Below(last.read.pos.y)
              => /\ characters[c].pos = last.wrapped.pos
                 /\ characters[c].vel = last.wrapped.vel

(* a moving body exactly on the right edge ends its update on the left edge *)
C12_Witness ==
    \E c \in Chars :
        /\ level = 3
        /\ Updated(c)
        /\ last.pos.x = LevelWidth
        /\ last.read.pos = last.pos
        /\ last.vel # Vec(0, 0)
        /\ characters[c].pos = Vec(0, last.pos.y)
        /\ characters[c].vel = last.vel

(* the update found a goal contact of a character that had not won *)
GoalTaken ==
    ~last.has_won /\ \E other \in last.contacts : has_tag(other, "goal")

(* C13: level 3: every update whose bomb loop finds at least one           *)
(* bomb-tagged body among the contacts ends with the body at the spawn     *)
(* position, at rest, and with exactly 15 more blood particles in the      *)
(* scene, however many bombs are touched and however often it has happened *)
(* before; the bomb reset changes neither has_won nor winners.             *)
C13_BombReset ==
    \A c \in Chars :
        (level = 3 /\ Updated(c) /\ last.read.bomb)
        => /\ characters[c].pos = SpawnPosition(c)
           /\ characters[c].vel = Vec(0, 0)
           /\ Len(scene.blood_particles) = last.particles + ParticlesPerSpawn
           /\ ~GoalTaken => /\ characters[c].has_won = last.has_won
                            /\ scene.winners = last.winners

(* a character touching two bombs at once is reset while the particles of  *)
(* an earlier reset are still there                                        *)
C13_Witness ==
    \E c \in Chars :
        /\ level = 3
        /\ Updated(c)
        /\ Cardinality({other \in last.contacts : has_tag(other, "bomb")}) >= 2
        /\ last.particles >= ParticlesPerSpawn
        /\ last.pos # SpawnPosition(c)
        /\ characters[c].pos = SpawnPosition(c)
        /\ Len(scene.blood_particles) = last.particles + ParticlesPerSpawn

(* C14: a winner is in winner_times, with the delta_time accumulated since *)
(* its registration as the value, from the registration until the first    *)
(* scene update at which that accumulated time exceeds 3.0 s; from that    *)
(* update on it is not in winner_times, and a winner that has left         *)
(* winner_times is never put back.                                         *)
C14_WinnerBanner ==
    /\ [](\A p \in Chars :
            /\ (p \in DOMAIN scene.winner_times)
                   = (banner_acc[p] >= 0 /\ banner_acc[p] <= WinnerDisplayDuration)
            /\ p \in DOMAIN scene.winner_times
                   => scene.winner_times[p].ms = banner_acc[p])
    /\ [][\A p \in Chars :
             (p \in Range(scene.winners) /\ p \notin DOMAIN scene.winner_times)
             => p \notin DOMAIN scene'.winner_times]_vars

(* C15: level 3: a scene update requests the next scene through the        *)
(* all-finished path exactly when there is at least one character, every   *)
(* character has a recorded completion time and no winner-display timer is *)
(* left after ageing; it does not do so while a banner has been shown for  *)
(* 3.0 s or less, and never on a level without characters.                 *)
C15_AllFinishedPath ==
    (level = 3 /\ last.op = "scene")
    => LET n     == Cardinality(DOMAIN characters)
           fired == "finished" \in Range(game.requests)
       IN  /\ fired = ( /\ n > 0
                        /\ \A c \in DOMAIN characters :
                              c \in DOMAIN scene.player_completion_times
                        /\ DOMAIN scene.winner_times = {} )
           /\ fired => \A p \in Chars :
                          ~(banner_acc[p] >= 0 /\ banner_acc[p] <= WinnerDisplayDuration)
           /\ n = 0 => ~fired

(* C16: level 3: a scene update that brings elapsed_time to the time limit *)
(* or beyond has requested the next scene, whether or not a character has  *)
(* reached the goal; and while the scene keeps being updated with positive *)
(* delta_time, it does request the next scene.                             *)
C16_Level3Ends ==
    /\ []( (level = 3 /\ AtMost(Double(TimeLimit), scene.elapsed_time))
             => game.go_to_scene_next >= 1 )
    /\ (level = 3 => <>(game.go_to_scene_next >= 1))

(* nobody has reached the goal and the time limit, reached exactly, has    *)
(* ended the scene                                                         *)
C16_Witness ==
    /\ level = 3
    /\ scene.winners = <<>>
    /\ scene.elapsed_time = Double(TimeLimit)
    /\ game.requests = <<"timeout">>

(* C17: level 3: when a scene update finds elapsed_time >= time_limit and  *)
(* some character without a recorded completion time, it requests the next *)
(* scene from the timeout branch, and the level-3 store that this request   *)
(* finds holds the DNF value for every such character.                     *)
C17_TimeoutDnf ==
    ( /\ level = 3
      /\ last.op = "scene"
      /\ AtMost(Double(TimeLimit), scene.elapsed_time)
      /\ \E c \in DOMAIN characters : c \notin DOMAIN scene.player_completion_times )
    => \E i \in DOMAIN game.requests :
          /\ game.requests[i] = "timeout"
          /\ game.stored[i].has
          /\ \A c \in DOMAIN characters :
                c \notin DOMAIN scene.player_completion_times
                => /\ c \in DOMAIN game.stored[i].times
                   /\ game.stored[i].times[c] = Double(Dnf)

(* the time ran out with one character finished and the last character of  *)
(* the scene not                                                           *)
C17_Witness ==
    /\ level = 3
    /\ "timeout" \in Range(game.requests)
    /\ DOMAIN scene.player_completion_times # {}
    /\ Cardinality(Chars) \notin DOMAIN scene.player_completion_times
    /\ game.has_times3
    /\ Cardinality(Chars) \in DOMAIN game.player_times_level3
    /\ game.player_times_level3[Cardinality(Chars)] = Double(Dnf)

(* C18: a player registered as a winner of level 1 has a completion time   *)
(* that is not DNF in player_times_level1 of the game, and a player        *)
(* registered as a winner of level 3 has one in player_times_level3.       *)
C18_LevelStoresTime ==
    \A p \in Range(scene.winners) :
        /\ level = 1 => /\ game.has_times1
                        /\ p \in DOMAIN game.player_times_level1
                        /\ ~Negative(game.player_times_level1[p])
        /\ level = 3 => /\ game.has_times3
                        /\ p \in DOMAIN game.player_times_level3
                        /\ ~Negative(game.player_times_level3[p])

Rows == scene.player_results

(* C19: in player_results every row with a non-negative total precedes     *)
(* every row with a DNF total, and the non-negative totals are in          *)
(* non-decreasing order.                                                   *)
C19_Ranking ==
    (level = Leaderboard /\ scene.ready)
    => \A i, j \in DOMAIN Rows :
          i < j => /\ Negative(Rows[i].total_time) => Negative(Rows[j].total_time)
                   /\ (~Negative(Rows[i].total_time) /\ ~Negative(Rows[j].total_time))
                      => AtMost(Rows[i].total_time, Rows[j].total_time)

(* a board on which the player with the highest number is ranked first,    *)
(* ahead of a player with a greater total                                  *)
C19_Witness ==
    /\ level = Leaderboard
    /\ scene.ready
    /\ Len(Rows) >= 2
    /\ ~Negative(Rows[1].total_time)
    /\ Rows[1].player = Cardinality(Chars)
    /\ Less(Rows[1].total_time, Rows[2].total_time)

(* the map of level n as the game object holds it, and whether it holds a  *)
(* time that is not DNF for player p                                       *)
StoreOf(n) ==
    IF n = 1 THEN [has |-> game.has_times1, times |-> game.player_times_level1]
    ELSE IF n = 2 THEN [has |-> game.has_times2, times |-> game.player_times_level2]
    ELSE [has |-> game.has_times3, times |-> game.player_times_level3]

Finished(n, p) ==
    /\ StoreOf(n).has
    /\ p \in DOMAIN StoreOf(n).times
    /\ ~Negative(StoreOf(n).times[p])

(* C20: the leaderboard built from a store in which level maps or players  *)
(* are missing has one row for every player of any level map; the total of *)
(* a row is DNF exactly when one of the three level times of the player is *)
(* missing or negative, and the sum of the three times otherwise.          *)
C20_MissingIsDnf ==
    (level = Leaderboard /\ scene.ready /\ game.go_to_scene = <<>>)
    => /\ {Rows[i].player : i \in DOMAIN Rows}
             = UNION {IF StoreOf(n).has THEN DOMAIN StoreOf(n).times ELSE {} :
                         n \in 1..3}
       /\ \A i, j \in DOMAIN Rows : i # j => Rows[i].player # Rows[j].player
       /\ \A i \in DOMAIN Rows :
             LET p == Rows[i].player
             IN  /\ (Rows[i].total_time = Double(Dnf))
                        = (\E n \in 1..3 : ~Finished(n, p))
                 /\ (\A n \in 1..3 : Finished(n, p))
                    => Rows[i].total_time
                          = Plus(Plus(StoreOf(1).times[p], StoreOf(2).times[p]),
                                 StoreOf(3).times[p])
                 /\ Rows[i].status.dnf = Negative(Rows[i].total_time)
                 /\ Rows[i].level1.dnf = ~Finished(1, p)
                 /\ Rows[i].level2.dnf = ~Finished(2, p)
                 /\ Rows[i].level3.dnf = ~Finished(3, p)

(* one player has the sum of three times; another, absent from one level   *)
(* map and with valid times in the two others, is DNF                      *)
C20_Witness ==
    /\ level = Leaderboard
    /\ scene.ready
    /\ game.go_to_scene = <<>>
    /\ \E i, j \in DOMAIN Rows :
          /\ Positive(Rows[i].total_time)
          /\ Rows[j].total_time = Double(Dnf)
          /\ \E n \in 1..3 :
                /\ StoreOf(n).has
                /\ Rows[j].player \notin DOMAIN StoreOf(n).times
                /\ \A k \in 1..3 \ {n} : Finished(k, Rows[j].player)

(* C21: after the update in which the leaderboard requests the return to   *)
(* scene 0, the game object has none of player_times_level1,               *)
(* player_times_level2 and player_times_level3; an update without Enter    *)
(* leaves the store as it is.                                              *)
C21_ExitClearsStore ==
    /\ [](level = Leaderboard /\ game.go_to_scene # <<>>
            => /\ ~game.has_times1
               /\ ~game.has_times2
               /\ ~game.has_times3
               /\ game.go_to_scene = <<0>>)
    /\ [][(level = Leaderboard /\ game'.go_to_scene = game.go_to_scene)
             => game' = game]_vars

(* a leaderboard that showed a total built from three level maps has been  *)
(* left, and the maps are gone                                             *)
C21_Witness ==
    /\ level = Leaderboard
    /\ game.go_to_scene = <<0>>
    /\ \E i \in DOMAIN Rows : Positive(Rows[i].total_time)
    /\ ~game.has_times1 /\ ~game.has_times2 /\ ~game.has_times3

(* C22: an update with an attack input makes exactly one circle_overlap    *)
(* query; an update without one, whether or not the attack display timer   *)
(* is still running, makes no query and hands out no impulse, and no other *)
(* body changes its velocity.                                              *)
C22_OneQueryPerAttack ==
    /\ [](last.op = "update"
            => /\ Len(last.physics.queries) = (IF last.attack THEN 1 ELSE 0)
               /\ ~last.attack => DOMAIN last.physics.impulses = {})
    /\ [][(last'.op = "update" /\ ~last'.attack)
             => \A d \in Chars \ {last'.c} :
                    characters'[d].vel = characters[d].vel]_vars

(* the display timer of an earlier attack is running down, and the update  *)
(* has made no query                                                       *)
C22_Witness ==
    /\ last.op = "update"
    /\ ~last.attack
    /\ atk_acc[last.c] = 75
    /\ characters[last.c].attack
    /\ Positive(characters[last.c].attack_display_timer)
    /\ last.physics = NoQueries

(* C23: on an attack input the query circle has radius 8 and is centred    *)
(* (width/2 + 8) px beside the body position on the side the character     *)
(* faces; every body returned except the character's own gets exactly one  *)
(* impulse, whose horizontal part points the way the character faces; the  *)
(* attack flag is true exactly while the delta_time accumulated since the  *)
(* last attack input is below 0.1 s.                                       *)
C23_AttackWindow ==
    /\ [](\A c \in Chars :
            /\ characters[c].attack
                  = (atk_acc[c] >= 0 /\ atk_acc[c] < AttackDisplayDuration)
            /\ (last.op = "update" /\ last.c = c /\ last.attack)
                  => LET dir == IF characters[c].flip_x THEN -1 ELSE 1
                     IN  /\ Len(last.physics.queries) = 1
                         /\ last.physics.queries[1].x
                               = last.pos.x + dir * (Width \div 2 + 8)
                         /\ last.physics.queries[1].y = last.pos.y
                         /\ last.physics.queries[1].radius = 8
                         /\ DOMAIN last.physics.impulses
                               = last.hits \ {CharBody(c)}
                         /\ \A b \in DOMAIN last.physics.impulses :
                               /\ Len(last.physics.impulses[b]) = 1
                               /\ last.physics.impulses[b][1].x * dir > 0)
    /\ [][\A c, d \in Chars :
            (last'.op = "update" /\ last'.c = c /\ last'.attack /\ d # c)
              => characters'[d].vel.x =
                   IF CharBody(d) \in last'.hits
                   THEN characters[d].vel.x
                          + (IF characters'[c].flip_x THEN -KnockbackImpulse
                             ELSE KnockbackImpulse)
                   ELSE characters[d].vel.x]_vars

(* C24: in an update that finds the character off the ground, a character  *)
(* other than player 3 ends up with the animation "jump" when its vertical *)
(* velocity is negative and "fall" otherwise; player 3 ends up with "jump" *)
(* whatever its velocity.                                                  *)
C24_Airborne ==
    (last.op = "update" /\ ~last.grounded)
      => last.played =
           IF last.c = 3 THEN "jump"
           ELSE IF last.vel.y < 0 THEN "jump" ELSE "fall"

(* the statement without the exception: every character, player 3         *)
(* included, falls when its velocity is not negative                       *)
C24_AirborneBySign ==
    (last.op = "update" /\ ~last.grounded)
      => last.played =
           IF last.vel.y < 0 THEN "jump" ELSE "fall"

(* player 4 is moving down off the ground and shows "fall" *)
C24_Witness ==
    /\ last.op = "update" /\ ~last.grounded
    /\ last.c = 4
    /\ last.vel.y > 0
    /\ last.played = "fall"

(* C25: a level with k Start markers gets exactly the characters numbered  *)
(* 1..min(k, 4); a level without a Goal marker gets no goal object and no  *)
(* character of it ever becomes a winner.                                  *)
C25_Markers ==
    /\ DOMAIN characters = 1..Min(scene.markers.Start, 4)
    /\ \A c \in DOMAIN characters : characters[c].player_number = c
    /\ scene.markers.Goal = 0
         => /\ ~scene.goal
            /\ scene.winners = <<>>
            /\ \A c \in DOMAIN characters : ~characters[c].has_won

(* a level with five Start markers and no Goal marker has been played for  *)
(* a frame: four characters, none a winner                                 *)
C25_Witness ==
    /\ scene.markers = [Start |-> 5, Goal |-> 0]
    /\ DOMAIN characters = 1..4
    /\ last.op = "update"
    /\ scene.winners = <<>>

(* C26: no call of update starts on a character that has won, so that from *)
(* the frame after the win on it makes no overlap query and hands out no   *)
(* impulse, its fall-through and attack state stay as they are and its     *)
(* body is where the winning update left it.                               *)
C26_WonIsTerminal ==
    /\ [](last.op = "update" => ~last.has_won /\ characters[last.c].is_active
                                   = ~characters[last.c].has_won)
    /\ [][\A c \in Chars :
            characters[c].has_won
              => /\ characters'[c].pos = characters[c].pos
                 /\ characters'[c].vel = characters[c].vel
                 /\ characters'[c].fall_through = characters[c].fall_through
                 /\ characters'[c].fall_through_timer
                       = characters[c].fall_through_timer
                 /\ characters'[c].attack = characters[c].attack
                 /\ characters'[c].has_won]_vars

(* level 3: a character has won, and frames of the physics and of the      *)
(* scene have passed since                                                 *)
C26_Witness ==
    \E c \in Chars :
        /\ level = 3
        /\ characters[c].has_won
        /\ ~characters[c].is_active
        /\ last.op = "scene"
        /\ Positive(scene.elapsed_time)
        /\ Running

(* the contact of the latest callback involves no character of the scene *)
Foreign(ct) ==
    \A c \in DOMAIN characters : characters[c].body \notin {ct.body_a, ct.body_b}

(* C27: after a PreSolve callback for a contact in which neither body      *)
(* belongs to a character of the scene, contact.enabled is what it was     *)
(* when the callback began.                                                *)
C27_ForeignContactUntouched ==
    (contact.callbacks > 0 /\ Foreign(contact)) => contact.enabled = contact.was

(* a disabled contact between a platform and the wall is still disabled    *)
(* after the callback                                                      *)
C27_Witness ==
    /\ contact.callbacks > 0
    /\ contact.body_a \in Platforms
    /\ contact.body_b = WallBody
    /\ ~contact.was
    /\ ~contact.enabled

(* C28: pre_solve of a character called for a contact in which its body is *)
(* neither body_a nor body_b returns True, whatever the normal and         *)
(* whatever its fall_through flag.                                         *)
C28_ForeignContactSolid ==
    (ps.self \in Chars /\ CharBody(ps.self) \notin {ps.body_a, ps.body_b})
      => ps.result = TRUE

(* C29: level 3: every request for the next scene, from the all-finished   *)
(* branch, the timeout branch or the Enter branch, finds an entry for      *)
(* every character of the scene in player_times_level3.                    *)
C29_EveryoneStored ==
    level = 3
      => \A i \in DOMAIN game.stored :
            /\ game.stored[i].has
            /\ DOMAIN characters \subseteq DOMAIN game.stored[i].times

(* the players that player_times_level3 of the game has an entry for *)
Stored3(g) == IF g.has_times3 THEN DOMAIN g.player_times_level3 ELSE {}

(* C30: level 3, during one run of the scene: an entry of                  *)
(* player_times_level3 keeps the value it was written with; a recorded     *)
(* completion time is the stored time; the DNF value is written only by an *)
(* update that finds the time limit reached, and only for players without  *)
(* a recorded completion time.                                             *)
C30_StoredOnce ==
    /\ [](level = 3
            => \A p \in DOMAIN scene.player_completion_times :
                  /\ p \in Stored3(game)
                  /\ game.player_times_level3[p] = scene.player_completion_times[p]
                  /\ ~Negative(game.player_times_level3[p]))
    /\ [][level = 3
            => /\ \A p \in Stored3(game) :
                     /\ p \in Stored3(game')
                     /\ game'.player_times_level3[p] = game.player_times_level3[p]
               /\ \A p \in Stored3(game') \ Stored3(game) :
                     game'.player_times_level3[p] = Double(Dnf)
                       => /\ p \notin DOMAIN scene.player_completion_times
                          /\ p \notin DOMAIN scene'.player_completion_times
                          /\ last'.op = "scene"
                          /\ AtMost(Double(TimeLimit), scene'.elapsed_time)]_vars

(* C31: at the end of every update the flags agree with their timers:      *)
(* fall_through is true exactly when fall_through_timer > 0, attack exactly *)
(* when attack_display_timer > 0, and the timers stay within 0..0.2 s and  *)
(* 0..0.1 s; an input in an update at least as long as the duration leaves *)
(* the flag false at the end of that update.                               *)
C31_FlagsAgreeWithTimers ==
    /\ \A c \in DOMAIN characters :
          /\ characters[c].fall_through = Positive(characters[c].fall_through_timer)
          /\ ~Negative(characters[c].fall_through_timer)
          /\ AtMost(characters[c].fall_through_timer, Double(FallThroughDuration))
          /\ characters[c].attack = Positive(characters[c].attack_display_timer)
          /\ ~Negative(characters[c].attack_display_timer)
          /\ AtMost(characters[c].attack_display_timer,
                    Double(AttackDisplayDuration))
    /\ (last.op = "update" /\ last.down /\ last.delta_time >= FallThroughDuration)
          => ~characters[last.c].fall_through
    /\ (last.op = "update" /\ last.attack
                           /\ last.delta_time >= AttackDisplayDuration)
          => ~characters[last.c].attack

(* 0.2 s of updates after the last down input the subtractions have left  *)
(* a fall-through timer above zero and below a millisecond, and the flag   *)
(* is still set; the attack of this update of 0.1 s is over at its end     *)
C31_Witness ==
    /\ last.op = "update" /\ ~last.down /\ last.attack
    /\ last.delta_time = AttackDisplayDuration
    /\ ~characters[last.c].attack
    /\ characters[last.c].attack_display_timer = Zero
    /\ ft_acc[last.c] = FallThroughDuration
    /\ characters[last.c].fall_through
    /\ characters[last.c].fall_through_timer.ms = 0
    /\ Positive(characters[last.c].fall_through_timer)

(* C32: once the updates of an unbroken run of updates with a down input   *)
(* (the axis held down) have accumulated 0.2 s, fall_through is false.      *)
C32_HoldDoesNotRearm ==
    (last.op = "update" /\ last.held >= FallThroughDuration)
      => ~characters[last.c].fall_through

(* C33: level 3: a character that the world-wrap step of its latest update *)
(* has teleported, and whose x-position no physics step has changed since, *)
(* is not teleported by its next update.                                   *)
C33_NoOscillation ==
    [][\A c \in DOMAIN characters :
          (level = 3 /\ c \in last.teleported
                     /\ last'.op = "update" /\ last'.c = c)
            => last'.wrapped.pos = last'.read.pos]_vars

(* C34: level 3: the winners are exactly the players with a recorded       *)
(* completion time; every banner timer belongs to a winner and is at most  *)
(* 3.0 s after a scene update; the results store holds, for every winner,  *)
(* the recorded completion time.                                           *)
C34_WinnerBooks ==
    level = 3
      => /\ Range(scene.winners) = DOMAIN scene.player_completion_times
         /\ DOMAIN scene.winner_times \subseteq Range(scene.winners)
         /\ last.op = "scene"
               => \A p \in DOMAIN scene.winner_times :
                     AtMost(scene.winner_times[p], Double(WinnerDisplayDuration))
         /\ \A p \in Range(scene.winners) :
               /\ game.has_times3
               /\ p \in DOMAIN game.player_times_level3
               /\ game.player_times_level3[p] = scene.player_completion_times[p]

(* a scene update has aged the banner of a winner, registered more than    *)
(* once, to exactly 3.0 s                                                  *)
C34_Witness ==
    \E p \in Range(scene.winners) :
        /\ level = 3
        /\ last.op = "scene"
        /\ registrations[p] >= 2
        /\ p \in DOMAIN scene.winner_times
        /\ scene.winner_times[p] = Double(WinnerDisplayDuration)
        /\ Less(scene.player_completion_times[p], scene.elapsed_time)
        /\ game.player_times_level3[p] = scene.player_completion_times[p]

(* C35: level 3: one scene update calls go_to_scene_next at most once.     *)
C35_OneRequestPerUpdate ==
    [][level = 3 => game'.go_to_scene_next <= game.go_to_scene_next + 1]_vars

(* C36: when init() of a level scene returns, winners and winner_times are *)
(* empty and the characters and platforms lists hold exactly the objects   *)
(* that this call has made, also when the scene object was used before.    *)
C36_InitStartsAfresh ==
    last.op = "init"
      => /\ scene.winners = <<>>
         /\ scene.winner_times = <<>>
         /\ characters = init_characters(scene.markers.Start)
         /\ scene.platforms = NumPlatforms

(* the text f is the text of the claim for the time t: "DNF" below zero,   *)
(* else the whole minutes of t and the rest of t to the nearest hundredth  *)
(* of a second, below 60.00                                                *)
Formats(t, f) ==
    IF Negative(t) THEN f.dnf
    ELSE LET whole == IF t.ms % 60000 = 0 /\ t.err < 0 THEN t.ms \div 60000 - 1
                      ELSE t.ms \div 60000
         IN  /\ ~f.dnf
             /\ f.minutes = whole
             /\ f.hundredths * 10 - (t.ms - whole * 60000) \in -5..5
             /\ f.hundredths < 6000

(* C37: format_time gives "DNF" for a negative time and otherwise M:SS.cc  *)
(* with M the whole minutes and SS.cc the rest to two decimals, always     *)
(* below 60.00; here for every time that the leaderboard has formatted.    *)
C37_FormatTime ==
    (level = Leaderboard /\ scene.ready)
    => \A i \in DOMAIN Rows :
          /\ Formats(Rows[i].total_time, Rows[i].status)
          /\ game.go_to_scene = <<>>
                => /\ Formats(GetTime(LevelTimes(game, 1), Rows[i].player), Rows[i].level1)
                   /\ Formats(GetTime(LevelTimes(game, 2), Rows[i].player), Rows[i].level2)
                   /\ Formats(GetTime(LevelTimes(game, 3), Rows[i].player), Rows[i].level3)

(* C38: level 3: a scene update of delta_time > 0 takes delta_time from    *)
(* the lifetime of every particle and drops, in place, exactly those whose *)
(* lifetime is then zero or less; when the bomb contacts have ceased and   *)
(* the updates go on, the list is empty from some update on.               *)
C38_ParticlesDie ==
    /\ [][(level = 3 /\ last'.op = "scene" /\ last'.delta_time > 0)
            => \A delta_time \in {Double(last'.delta_time)} :
               \A kept \in {SelectSeq(scene.blood_particles,
                               LAMBDA lifetime : Positive(Minus(lifetime, delta_time)))} :
                   /\ Len(scene'.blood_particles) = Len(kept)
                   /\ \A i \in DOMAIN kept :
                         /\ scene'.blood_particles[i] = Minus(kept[i], delta_time)
                         /\ Less(scene'.blood_particles[i], kept[i])]_vars
    /\ <>[](level = 3 => scene.blood_particles = <<>>)

(* a scene update has dropped the particles whose lifetime of 0.3 s ran    *)
(* out with it and kept those drawn with 0.6 s, which have 0.3 s left      *)
C38_Witness ==
    /\ level = 3
    /\ last.op = "scene"
    /\ Len(scene.blood_particles) = ParticlesPerSpawn - (ParticlesPerSpawn \div 2)
    /\ \A i \in DOMAIN scene.blood_particles :
          /\ scene.blood_particles[i].ms = 300
          /\ Less(scene.blood_particles[i], Double(600))

====
